---------------------------- MODULE Spec2Model ----------------------------
(***************************************************************************)
(* Model of the unit helpers and of render_plot of                         *)
(* topobank/static/js/project.js.                                          *)
(*                                                                         *)
(* JavaScript values are modelled as follows.                              *)
(*   - a string is a sequence of one-character strings; the superscript    *)
(*     glyph of an ASCII character c is written "^" \o c ("^2" is the      *)
(*     glyph SUPERSCRIPT TWO, "^-" SUPERSCRIPT MINUS, "^." the DOT         *)
(*     OPERATOR of the dictionaries);                                      *)
(*   - a value that is a string or undefined is a record [t, s];           *)
(*   - a number is a record [nan, m, e] standing for m * 10^e, or NaN.     *)
(*     Arithmetic is exact (floating point rounding is not modelled).      *)
(***************************************************************************)
EXTENDS Integers, Sequences, FiniteSets

\* ------------------------------------------------------------------ bounds
\* longest unit string handed to split_unit by the parser harness
MaxLen == 3
\* longest base unit handed to unicode_unit by the parser harness
MaxUnitLen == 2
\* largest absolute exponent handed to unicode_unit by the parser harness
MaxExp == 12
\* most descriptors in the array handed to render_plot
MaxDescr == 2
\* most series in the array handed to render_plot, over all descriptors
MaxSeries == 2
\* most render_plot calls for the element
MaxCalls == 2
\* most URLs in the element's data('src')
MaxRequests == 2
\* most plot calls for the element
MaxPolls == 3
\* most calls in a chain of submit_analyses_card_ajax calls
MaxCardCalls == 11
\* most calls in a chain of update_scatter_plot calls
MaxScatterCalls == 3
\* most jqXHR objects of the page
MaxXhr == 4
\* most pages of a search result
MaxPage == 2
\* most requests of the tree not yet answered
MaxLoads == 2
\* most select and unselect requests sent
MaxClicks == 4

\* ------------------------------------------------------- JavaScript values
Undefined == [t |-> "undefined", s |-> <<>>]
Str(s) == [t |-> "string", s |-> s]
IsUndefined(v) == v.t = "undefined"
\* ToBoolean of a value that is a string or undefined
Truthy(v) == v.t = "string" /\ Len(v.s) > 0

NaN == [nan |-> TRUE, m |-> 0, e |-> 0]
Num(m, e) == IF m = 0 THEN [nan |-> FALSE, m |-> 0, e |-> 0]
             ELSE [nan |-> FALSE, m |-> m, e |-> e]
IntNum(n) == Num(n, 0)
IsInteger(v) == ~v.nan /\ v.e >= 0

\* ------------------------------------------------------------- characters
DigitChars == <<"0", "1", "2", "3", "4", "5", "6", "7", "8", "9">>
IsDigit(c) == \E d \in 1..10 : DigitChars[d] = c
DigitVal(c) == (CHOOSE d \in 1..10 : DigitChars[d] = c) - 1

\* the keys of superscript_dict of unicode_superscript, in source order
AsciiKeys == DigitChars \o <<"+", "-", ".">>
\* the keys of superscript_dict of split_unit, in source order
SuperscriptKeys == [i \in 1..Len(AsciiKeys) |-> "^" \o AsciiKeys[i]]

IndexIn(keys, c) == CHOOSE i \in 1..Len(keys) : keys[i] = c
InDict(keys, c) == \E i \in 1..Len(keys) : keys[i] = c

\* ------------------------------------------------------------ Number, String
RECURSIVE DigitsOf(_)
\* the decimal digits of n >= 0
DigitsOf(n) == IF n < 10 THEN <<DigitChars[n + 1]>>
               ELSE DigitsOf(n \div 10) \o <<DigitChars[(n % 10) + 1]>>

\* Number::toString of an integer (|n| < 10^21) or NaN, as string
\* concatenation unit + exponent applies it
NumberToString(v) == IF v.nan THEN <<"N", "a", "N">>
               ELSE IF v.m < 0 THEN <<"-">> \o DigitsOf(-v.m)
               ELSE DigitsOf(v.m)

RECURSIVE ParseDigits(_, _, _)
\* the value of the longest run of digits of str from position i on, acc
\* being the value read so far
ParseDigits(str, i, acc) ==
    IF i > Len(str) \/ ~IsDigit(str[i]) THEN acc
    ELSE ParseDigits(str, i + 1, 10 * acc + DigitVal(str[i]))

\* parseInt(str) for a string of ASCII digits, signs and dots: an optional
\* sign, then the longest run of digits; NaN when that run is empty
parseInt(str) ==
    LET signed == Len(str) > 0 /\ str[1] \in {"+", "-"}
        first == IF signed THEN 2 ELSE 1
        sign == IF signed /\ str[1] = "-" THEN -1 ELSE 1
    IN  IF first > Len(str) \/ ~IsDigit(str[first]) THEN NaN
        ELSE IntNum(sign * ParseDigits(str, first, 0))

\* ----------------------------------------------------------------- split_unit
RECURSIVE split_unit_loop_trailing(_, _, _, _)
\* the loop of split_unit taking only a trailing run of superscript glyphs
\* for the exponent: a glyph followed by a unit character is kept in the unit
split_unit_loop_trailing(unit_str, i, unit, exponent) ==
    IF i > Len(unit_str) THEN [unit |-> unit, exponent |-> exponent]
    ELSE IF InDict(SuperscriptKeys, unit_str[i])
            /\ \A j \in i..Len(unit_str) : InDict(SuperscriptKeys, unit_str[j])
         THEN split_unit_loop_trailing(unit_str, i + 1, unit,
                  exponent \o <<AsciiKeys[IndexIn(SuperscriptKeys, unit_str[i])]>>)
         ELSE split_unit_loop_trailing(unit_str, i + 1, unit \o <<unit_str[i]>>,
                                       exponent)

RECURSIVE split_unit_loop(_, _, _, _)
\* the for loop of split_unit over the characters of unit_str from i on
split_unit_loop(unit_str, i, unit, exponent) ==
    IF i > Len(unit_str) THEN [unit |-> unit, exponent |-> exponent]
    ELSE IF InDict(SuperscriptKeys, unit_str[i])
         THEN split_unit_loop(unit_str, i + 1, unit,
                  exponent \o <<AsciiKeys[IndexIn(SuperscriptKeys, unit_str[i])]>>)
         ELSE split_unit_loop(unit_str, i + 1, unit \o <<unit_str[i]>>, exponent)

\* split_unit without its guard for an empty or absent argument
split_unit_unguarded(unit_str) ==
    LET acc == split_unit_loop(unit_str.s, 1, <<>>, <<>>)
    IN  [unit |-> Str(acc.unit),
         exponent |-> IF Len(acc.exponent) # 0 THEN parseInt(acc.exponent)
                      ELSE IntNum(1)]

split_unit(unit_str) ==
    IF ~Truthy(unit_str) THEN [unit |-> Undefined, exponent |-> IntNum(1)]
    ELSE LET acc == split_unit_loop(unit_str.s, 1, <<>>, <<>>)
         IN  [unit |-> Str(acc.unit),
              exponent |-> IF Len(acc.exponent) # 0 THEN parseInt(acc.exponent)
                           ELSE IntNum(1)]

\* ------------------------------------------------------- unicode_superscript
unicode_superscript(s) ==
    [i \in 1..Len(s) |-> IF InDict(AsciiKeys, s[i])
                         THEN SuperscriptKeys[IndexIn(AsciiKeys, s[i])]
                         ELSE s[i]]

\* --------------------------------------------------------------- unicode_unit
unicode_unit(unit, exponent) ==
    IF ~exponent.nan /\ exponent.e = 0 /\ exponent.m = 1 THEN unit
    ELSE unicode_superscript(unit \o NumberToString(exponent))

\* ------------------------------------------------------------- arithmetic
One == IntNum(1)

\* a * b
Times(a, b) == IF a.nan \/ b.nan THEN NaN ELSE Num(a.m * b.m, a.e + b.e)

\* base ** exponent for a base that is a power of ten (every ratio of Units
\* is one) and an integer or NaN exponent; x ** 0 is 1 and x ** NaN is NaN
Pow(base, exponent) ==
    IF exponent.nan THEN NaN
    ELSE IF exponent.m = 0 THEN One
    ELSE IF base.nan THEN NaN
    ELSE Num(1, base.e * exponent.m)

\* ---------------------------------------------------------------- convert
\* the units the conversion library knows in this model: the measure of each
\* and the power of ten of its ratio to the measure's anchor unit
Units == {[unit |-> <<"m">>, measure |-> "length", e |-> 0],
          [unit |-> <<"m", "m">>, measure |-> "length", e |-> -3],
          [unit |-> <<"s">>, measure |-> "time", e |-> 0]}
Supported(u) == u.t = "string" /\ \E r \in Units : r.unit = u.s
UnitRecord(u) == CHOOSE r \in Units : r.unit = u.s

\* convert(1).from(from).to(to) throws for an unsupported unit and for units
\* of different measures
ConvertThrows(from, to) ==
    \/ ~Supported(from)
    \/ ~Supported(to)
    \/ UnitRecord(from).measure # UnitRecord(to).measure
convert(from, to) == Num(1, UnitRecord(from).e - UnitRecord(to).e)

\* ------------------------------------------------------ render_plot: errors
NoError == [name |-> "none", message |-> "", detail |-> <<>>]
UnitMismatchError ==
    [name |-> "TypeError",
     message |-> "X- and y-axis have different (base) units. Cannot at present handle this.",
     detail |-> <<>>]
\* a style error that reads like the unit mismatch error
StyleErrorAsMismatch(style) ==
    [name |-> "TypeError",
     message |-> "X- and y-axis have different (base) units. Cannot at present handle this.",
     detail |-> <<>>]
\* throw TypeError('Cannot interpret style string: ' + style)
StyleError(style) ==
    [name |-> "TypeError", message |-> "Cannot interpret style string: ",
     detail |-> style]
\* what convert throws (an Error of the library)
ConvertError == [name |-> "Error", message |-> "convert", detail |-> <<>>]

\* --------------------------------------------------- render_plot: one series
\* color_abbreviations and symbol_factories
color_abbreviations == {<<"k", "black">>, <<"r", "red">>}
symbol_factories == {<<"o", "circle">>, <<"+", "cross">>, <<"d", "diamond">>,
                     <<"s", "square">>, <<"^", "triangle">>, <<"y", "wye">>}
InTable(table, c) == \E p \in table : p[1] = c
Lookup(table, c) == (CHOOSE p \in table : p[1] = c)[2]

\* the style taken as written, without the default
EffectiveStyleNoDefault(item) == item.style.s
\* var style = item.style ? item.style : 'k-'
EffectiveStyle(item) ==
    IF Truthy(item.style) THEN item.style.s ELSE <<"k", "-">>

RECURSIVE StyleLoopSkipping(_, _, _)
\* the loop over the characters of style passing over a character that is no
\* style code
StyleLoopSkipping(style, i, acc) ==
    IF i > Len(style) THEN acc
    ELSE LET c == style[i]
         IN  IF c = "-" THEN StyleLoopSkipping(style, i + 1, [acc EXCEPT !.line = TRUE])
             ELSE IF InTable(color_abbreviations, c)
             THEN StyleLoopSkipping(style, i + 1,
                            [acc EXCEPT !.color = Lookup(color_abbreviations, c)])
             ELSE IF InTable(symbol_factories, c)
             THEN StyleLoopSkipping(style, i + 1,
                            [acc EXCEPT !.symbol = Lookup(symbol_factories, c)])
             ELSE StyleLoopSkipping(style, i + 1, acc)

RECURSIVE StyleLoop(_, _, _)
\* the loop over the characters of style from i on; acc is [line, color,
\* symbol, err]
StyleLoop(style, i, acc) ==
    IF i > Len(style) THEN acc
    ELSE LET c == style[i]
         IN  IF c = "-" THEN StyleLoop(style, i + 1, [acc EXCEPT !.line = TRUE])
             ELSE IF InTable(color_abbreviations, c)
             THEN StyleLoop(style, i + 1,
                            [acc EXCEPT !.color = Lookup(color_abbreviations, c)])
             ELSE IF InTable(symbol_factories, c)
             THEN StyleLoop(style, i + 1,
                            [acc EXCEPT !.symbol = Lookup(symbol_factories, c)])
             ELSE [acc EXCEPT !.err = StyleError(style)]

\* the style parsed with the line drawn unless the style says otherwise
ParseStyleLineOn(style) ==
    StyleLoop(style, 1, [line |-> TRUE, color |-> "undefined",
                         symbol |-> "undefined", err |-> NoError])
\* var line = false; var color = undefined; var symbol = undefined; for (...)
ParseStyle(style) ==
    StyleLoop(style, 1, [line |-> FALSE, color |-> "undefined",
                         symbol |-> "undefined", err |-> NoError])

\* new Plottable.Dataset(item.y.map(...)): one point per element of item.y;
\* an index item.x lacks reads undefined, and the product is NaN
Dataset(item, scale_factor_x, scale_factor_y) ==
    [i \in 1..Len(item.y) |->
        [x |-> IF i <= Len(item.x) THEN Times(scale_factor_x, item.x[i]) ELSE NaN,
         y |-> Times(scale_factor_y, item.y[i])]]

\* the stroke (and fill) of a primitive: the colour of the style, or the
\* series name looked up in color_scale
Stroke(color, item) ==
    IF color # "undefined" THEN [by |-> "color", v |-> color]
    ELSE [by |-> "color_scale", v |-> item.name]

\* the primitives of one series pushed with the symbols before the line
PrimitivesSymbolFirst(item, st, dataset, descr, series) ==
    (IF st.symbol # "undefined"
     THEN <<[kind |-> "Scatter", data |-> dataset, stroke |-> Stroke(st.color, item),
             symbol |-> st.symbol, name |-> item.name,
             descr |-> descr, series |-> series]>>
     ELSE <<>>)
    \o
    (IF st.line
     THEN <<[kind |-> "Line", data |-> dataset, stroke |-> Stroke(st.color, item),
             symbol |-> "undefined", name |-> item.name,
             descr |-> descr, series |-> series]>>
     ELSE <<>>)

\* the primitives one series pushes to plots: the line, then the symbols;
\* descr and series are the positions the dataset comes from
Primitives(item, st, dataset, descr, series) ==
    (IF st.line
     THEN <<[kind |-> "Line", data |-> dataset, stroke |-> Stroke(st.color, item),
             symbol |-> "undefined", name |-> item.name,
             descr |-> descr, series |-> series]>>
     ELSE <<>>)
    \o
    (IF st.symbol # "undefined"
     THEN <<[kind |-> "Scatter", data |-> dataset, stroke |-> Stroke(st.color, item),
             symbol |-> st.symbol, name |-> item.name,
             descr |-> descr, series |-> series]>>
     ELSE <<>>)

RECURSIVE SeriesLoop(_, _, _, _, _, _)
\* plot_descr.series.forEach(...) from series k on; acc is [plots, symbols,
\* err]; a style that cannot be interpreted throws and ends the loop
SeriesLoop(series, k, acc, scale_factor_x, scale_factor_y, descr) ==
    IF k > Len(series) THEN acc
    ELSE LET item == series[k]
             dataset == Dataset(item, scale_factor_x, scale_factor_y)
             st == ParseStyle(EffectiveStyle(item))
         IN  IF st.err # NoError THEN [acc EXCEPT !.err = st.err]
             ELSE SeriesLoop(series, k + 1,
                      [plots |-> acc.plots \o Primitives(item, st, dataset, descr, k),
                       symbols |-> Append(acc.symbols, st.symbol),
                       err |-> NoError],
                      scale_factor_x, scale_factor_y, descr)

\* ----------------------------------------------- render_plot: one descriptor
\* a comparison of base unit and exponent together
UnitMismatchWholeUnit(xunit, yunit) == xunit # yunit
\* xunit.unit != yunit.unit
UnitMismatch(xunit, yunit) == xunit.unit # yunit.unit

\* the display unit taken anew from every descriptor
DisplayUnitOfDescriptor(unit, xunit) == xunit.unit
\* if (!unit) unit = xunit.unit
DisplayUnit(unit, xunit) == IF ~Truthy(unit) THEN xunit.unit ELSE unit

\* scale_factor ** xunit.exponent and scale_factor ** yunit.exponent
ScaleFactorX(scale_factor, xunit, yunit) == Pow(scale_factor, xunit.exponent)
\* the y factor raised to the exponent of the x unit
ScaleFactorYOfX(scale_factor, xunit, yunit) == Pow(scale_factor, xunit.exponent)
ScaleFactorY(scale_factor, xunit, yunit) == Pow(scale_factor, yunit.exponent)

\* label + string: an absent label concatenates as "undefined"
Concat(v, s) ==
    (IF IsUndefined(v) THEN <<"u", "n", "d", "e", "f", "i", "n", "e", "d">> ELSE v.s) \o s

\* xlabel = plot_descr.xlabel;
\* if (xunit.unit) xlabel += ' (' + unicode_unit(unit, xunit.exponent) + ')'
LabelText(label, axis_unit, unit) ==
    IF Truthy(axis_unit.unit)
    THEN Str(Concat(label, <<" ", "(">> \o unicode_unit(unit.s, axis_unit.exponent)
                           \o <<")">>))
    ELSE label

\* var x_axis_label, y_axis_label
NoLabel == [built |-> FALSE, text |-> Undefined]
\* an axis label built again for every descriptor
AxisLabelRebuilt(axis_label, label, axis_unit, unit) ==
    [built |-> TRUE, text |-> LabelText(label, axis_unit, unit)]
\* if (!x_axis_label) { ...; x_axis_label = new Plottable.Components.Label(xlabel) }
AxisLabel(axis_label, label, axis_unit, unit) ==
    IF ~axis_label.built
    THEN [built |-> TRUE, text |-> LabelText(label, axis_unit, unit)]
    ELSE axis_label

RECURSIVE Uniq(_)
\* the domain an ordinal scale keeps of the values it is given: each value
\* once, at the place it comes first
Uniq(names) ==
    IF names = <<>> THEN <<>>
    ELSE LET front == Uniq(SubSeq(names, 1, Len(names) - 1))
             last == names[Len(names)]
         IN  IF \E i \in 1..Len(front) : front[i] = last THEN front
             ELSE Append(front, last)

\* var color_scale
NoColorScale == [built |-> FALSE, domain |-> <<>>]
\* a colour scale set up again by every descriptor
ColorScaleRebuilt(color_scale, series) ==
    [built |-> TRUE, domain |-> Uniq([k \in 1..Len(series) |-> series[k].name])]
\* if (!color_scale) { ...; color_scale.domain(names) }
ColorScale(color_scale, series) ==
    IF ~color_scale.built
    THEN [built |-> TRUE, domain |-> Uniq([k \in 1..Len(series) |-> series[k].name])]
    ELSE color_scale

RECURSIVE ScaledNames(_)
\* the names the primitives look up in color_scale when they are drawn, in
\* the order of the primitives
ScaledNames(primitives) ==
    IF primitives = <<>> THEN <<>>
    ELSE LET front == ScaledNames(SubSeq(primitives, 1, Len(primitives) - 1))
             last == primitives[Len(primitives)]
         IN  IF last.stroke.by = "color_scale" THEN Append(front, last.stroke.v)
             ELSE front

\* chart.renderTo(element): the scale gives a name outside its domain the
\* next colour and appends it to the domain
Rendered(color_scale, primitives) ==
    [color_scale EXCEPT !.domain = Uniq(color_scale.domain \o ScaledNames(primitives))]

\* the body of the loop over plot_descr_array for the descriptor at position
\* descr; st is [unit, x_axis_label, y_axis_label, color_scale, plots,
\* symbols, err], err telling what the body threw
LoopBody(st, plot_descr, descr) ==
    LET xunit == split_unit(plot_descr.xunit)
        yunit == split_unit(plot_descr.yunit)
    IN  IF UnitMismatch(xunit, yunit) THEN [st EXCEPT !.err = UnitMismatchError]
        ELSE
        LET unit == DisplayUnit(st.unit, xunit)
        IN  IF Truthy(unit) /\ ConvertThrows(xunit.unit, unit)
            THEN [st EXCEPT !.unit = unit, !.err = ConvertError]
            ELSE
            LET scale_factor == IF Truthy(unit) THEN convert(xunit.unit, unit) ELSE One
                scale_factor_x == IF Truthy(unit)
                                  THEN ScaleFactorX(scale_factor, xunit, yunit) ELSE One
                scale_factor_y == IF Truthy(unit)
                                  THEN ScaleFactorY(scale_factor, xunit, yunit) ELSE One
                done == SeriesLoop(plot_descr.series, 1,
                                   [plots |-> st.plots, symbols |-> st.symbols,
                                    err |-> NoError],
                                   scale_factor_x, scale_factor_y, descr)
            IN  [unit |-> unit,
                 x_axis_label |-> AxisLabel(st.x_axis_label, plot_descr.xlabel, xunit, unit),
                 y_axis_label |-> AxisLabel(st.y_axis_label, plot_descr.ylabel, yunit, unit),
                 color_scale |-> ColorScale(st.color_scale, plot_descr.series),
                 plots |-> done.plots,
                 symbols |-> done.symbols,
                 err |-> done.err]

RECURSIVE render_plot_loop(_, _, _)
\* the loop over plot_descr_array from position i on, up to its end or to
\* the first throw
render_plot_loop(st, array, i) ==
    IF i > Len(array) \/ st.err # NoError THEN st
    ELSE render_plot_loop(LoopBody(st, array[i], i), array, i + 1)

\* what a call render_plot(element, array, u) computes up to the end of its
\* loop, from the locals as they are declared
render_plot(array, u) ==
    render_plot_loop([unit |-> u, x_axis_label |-> NoLabel, y_axis_label |-> NoLabel,
                      color_scale |-> NoColorScale, plots |-> <<>>,
                      symbols |-> <<>>, err |-> NoError],
                     array, 1)

\* ---------------------------------------------------------------- variables
VARIABLES
    test,             \* the helper called last: "none", "split_unit",
                      \* "unicode_unit" or "round_trip"
    unit_str,         \* the argument of the last split_unit call
    parsed,           \* what that call returned
    fmt_unit,         \* the arguments of the last unicode_unit call
    fmt_exponent,
    formatted,        \* what that call returned
    superscript_dict, \* the global unicode_superscript assigns (no var)
    globals,          \* the names of the globals render_plot has assigned
                      \* (xunit, yunit, xlabel, ylabel and s have no var)
    \* --- render_plot(element, plot_descr_array, unit)
    pc,               \* "idle", "loop" (inside the loop over plot_descr_array),
                      \* "returned" or "thrown"
    calls,            \* the number of render_plot calls so far; the chart a
                      \* call creates is identified by the number of the call
    plot_descr_array, \* the argument
    target_unit,      \* the argument unit as passed
    idx,              \* the number of descriptors the loop has completed
    unit,             \* the parameter unit, assigned at line 146
    x_axis_label,
    y_axis_label,
    color_scale,
    plots,
    symbols,
    error,            \* what the call threw
    \* --- the element
    chart_data,       \* $(element).data('chart'): a chart, or 0 for none
    destroyed,        \* the charts destroy() was called on
    rendered,         \* the chart rendered into the element, or 0 for none
    \* --- plot(element, unit)
    src,              \* the number of URLs in $(element).data('src')
    plot_calls,       \* the number of plot calls so far
    in_flight,        \* the request sets $.when has not settled yet
    done_func,        \* the global done_func: the unit its closure holds
    timers,           \* the timeouts set and not yet fired, in the order set
    data_array,       \* the responses done_func was called with last
    spinner,          \* "shown" or "hidden"
    message,          \* the text put in the element by html(): "none",
                      \* "error" or "failed"
    plot_pc,          \* "idle", or "rendering" while done_func runs render_plot
    chart_unit,       \* the unit done_func passed to the render_plot call that
                      \* rendered last
    \* --- submit_analyses_card_ajax(card_url, ..., call_count)
    card_first,       \* the argument call_count of the first call
    card_calls,       \* the number of calls of the chain so far
    card_requests,    \* the requests in flight: [call_count, args]
    card_timers,      \* the follow-up calls scheduled: [call_count, args, delay]
    card_html,        \* the content of the card element
    card_alert,       \* whether the card element has the class alert-error
    card_wait_text,   \* the number of dots after 'Please wait'
    card_writes,      \* how often a success response has replaced the content
    card_last,        \* the response handled last
    \* --- update_scatter_plot(div)
    scatter_calls,    \* the number of calls for the div so far
    scatter_requests, \* the d3.json requests in flight
    scatter_timers,   \* the delays of the timeouts set and not yet fired
    scatter_warned,   \* how often console.warn was called
    scatter_graphs,   \* how often a graph was rendered into the div
    scatter_last,     \* the response handled last
    \* --- install_handler_for_aborting_all_ajax_calls_on_page_leave()
    installed,        \* whether the function has run
    oldbeforeunload,  \* window.onbeforeunload when it ran
    xhrPool,          \* the array xhrPool
    xhr_sent,         \* the requests ajaxSend was triggered for
    xhr_sent_early,   \* those of them sent before the function ran
    xhr_complete,     \* the requests ajaxComplete was triggered for
    xhr_aborted,      \* the requests abort() was called on
    unload_result,    \* what window.onbeforeunload returned last
    \* --- search_results_vm: the state of the select tab
    mounted,          \* whether mounted() has run
    current_page,
    page_size,
    search_term,
    category,
    sharing_status,
    tree_mode,
    page_range,       \* page_range.length, 0 while page_range is null
    is_loading,
    source,           \* the option 'source' of the tree: the URL requested last
    tree_loads,       \* the requests of the tree not yet answered
    vm_last,          \* the method or callback of search_results_vm run last
    \* --- search_results_vm: the checkboxes of the tree
    node_selected,    \* node.isSelected() of every node
    select_requests,  \* the select and unselect requests in flight
    select_sent,      \* the number of requests sent so far
    acknowledged,     \* the selection state of the success response handled last
    basket,           \* the argument of the last basket.update
    select_last       \* the callback run last

unit_vars == <<test, unit_str, parsed, fmt_unit, fmt_exponent, formatted>>
local_vars == <<plot_descr_array, target_unit, idx, unit, x_axis_label,
                y_axis_label, color_scale, plots, symbols, error>>
element_vars == <<chart_data, destroyed, rendered>>
render_vars == <<pc, calls, local_vars, element_vars>>
plot_vars == <<src, plot_calls, in_flight, done_func, timers, data_array, spinner,
               message, plot_pc, chart_unit>>
card_vars == <<card_first, card_calls, card_requests, card_timers, card_html, card_alert,
               card_wait_text, card_writes, card_last>>
scatter_vars == <<scatter_calls, scatter_requests, scatter_timers, scatter_warned,
                  scatter_graphs, scatter_last>>
pool_vars == <<installed, oldbeforeunload, xhrPool, xhr_sent, xhr_sent_early,
               xhr_complete, xhr_aborted, unload_result>>
search_vars == <<mounted, current_page, page_size, search_term, category,
                 sharing_status, tree_mode, page_range, is_loading, source, tree_loads,
                 vm_last>>
select_vars == <<node_selected, select_requests, select_sent, acknowledged, basket,
                 select_last>>
tree_vars == <<search_vars, select_vars>>
old_vars == <<unit_vars, superscript_dict, globals, render_vars, plot_vars, card_vars>>
more_vars == <<scatter_vars, pool_vars, tree_vars>>
page_vars == <<plot_vars, card_vars, more_vars>>
vars == <<unit_vars, superscript_dict, globals, render_vars, page_vars>>

\* ------------------------------------------------------ parser harness inputs
RECURSIVE SeqsUpTo(_, _)
\* the sequences over S of length at most n
SeqsUpTo(S, n) == IF n = 0 THEN {<<>>}
                  ELSE LET shorter == SeqsUpTo(S, n - 1)
                       IN  shorter \cup {Append(s, c) : s \in shorter, c \in S}

\* characters of the unit strings handed to split_unit
InputChars == {"m", "s", "2", ".", "^1", "^2", "^-", "^."}
UnitStrs == {Str(s) : s \in SeqsUpTo(InputChars, MaxLen)} \cup {Undefined}

\* characters of the base units handed to unicode_unit; both call sites
\* (lines 187, 194) pass a truthy unit
BaseChars == {"m", "s", "2", "-", "."}
BaseUnits == SeqsUpTo(BaseChars, MaxUnitLen) \ {<<>>}
Exponents == {IntNum(n) : n \in -MaxExp..MaxExp} \cup {NaN}

InitUnits ==
    /\ test = "none"
    /\ unit_str = Undefined
    /\ parsed = [unit |-> Undefined, exponent |-> IntNum(1)]
    /\ fmt_unit = <<>>
    /\ fmt_exponent = IntNum(1)
    /\ formatted = <<>>

\* a call split_unit(s)
SplitUnitCall ==
    /\ test = "none"
    /\ \E s \in UnitStrs :
        /\ test' = "split_unit"
        /\ unit_str' = s
        /\ parsed' = split_unit(s)
        /\ fmt_unit' = <<>>
        /\ fmt_exponent' = IntNum(1)
        /\ formatted' = <<>>
        /\ UNCHANGED <<superscript_dict, globals, render_vars, page_vars>>

\* a call unicode_unit(u, e); unicode_superscript assigns the global
\* superscript_dict when it runs
UnicodeUnitCall ==
    /\ test = "none"
    /\ \E u \in BaseUnits, e \in Exponents :
        /\ test' = "unicode_unit"
        /\ fmt_unit' = u
        /\ fmt_exponent' = e
        /\ formatted' = unicode_unit(u, e)
        /\ superscript_dict' = IF e = IntNum(1) THEN superscript_dict
                                ELSE "ascii_to_superscript"
        /\ unit_str' = Undefined
        /\ parsed' = [unit |-> Undefined, exponent |-> IntNum(1)]
        /\ UNCHANGED <<globals, render_vars, page_vars>>

\* split_unit applied to the string the last unicode_unit call returned
SplitFormattedCall ==
    /\ test = "unicode_unit"
    /\ test' = "round_trip"
    /\ unit_str' = Str(formatted)
    /\ parsed' = split_unit(Str(formatted))
    /\ UNCHANGED <<fmt_unit, fmt_exponent, formatted, superscript_dict, globals,
                   render_vars, page_vars>>

\* the results are dropped before the next call; the global stays
ForgetCall ==
    /\ test # "none"
    /\ test' = "none"
    /\ unit_str' = Undefined
    /\ parsed' = [unit |-> Undefined, exponent |-> IntNum(1)]
    /\ fmt_unit' = <<>>
    /\ fmt_exponent' = IntNum(1)
    /\ formatted' = <<>>
    /\ UNCHANGED <<superscript_dict, globals, render_vars, page_vars>>

NextUnits == SplitUnitCall \/ UnicodeUnitCall \/ SplitFormattedCall \/ ForgetCall

\* ------------------------------------------------------- render_plot inputs
\* the x and y arrays of every series
SeriesX == <<IntNum(1), IntNum(2)>>
SeriesY == <<IntNum(3), IntNum(5)>>
Series(name, style) == [name |-> name, style |-> style, x |-> SeriesX, y |-> SeriesY]

\* (xunit, yunit) of a descriptor: m and m, mm and mm^2, none, m and s, s and s
UnitPairs == {<<Str(<<"m">>), Str(<<"m">>)>>,
              <<Str(<<"m", "m">>), Str(<<"m", "m", "^2">>)>>,
              <<Str(<<>>), Str(<<>>)>>,
              <<Str(<<"m">>), Str(<<"s">>)>>,
              <<Str(<<"s">>), Str(<<"s">>)>>}
\* (xlabel, ylabel) of a descriptor: both given, or both absent
LabelPairs == {<<Str(<<"X">>), Str(<<"Y">>)>>, <<Undefined, Undefined>>}
\* the series of a descriptor: one with a line, or one whose style has a
\* character that is no style code
UnitSeries == {<<Series("a", Str(<<"-">>))>>, <<Series("a", Str(<<"-", "x">>))>>}

\* the descriptors that differ in units and labels
Descriptors ==
    {[xunit |-> u[1], yunit |-> u[2], xlabel |-> l[1], ylabel |-> l[2],
      series |-> s] :
        u \in UnitPairs, l \in LabelPairs, s \in UnitSeries}
PlotArrays == SeqsUpTo(Descriptors, MaxDescr) \ {<<>>}
\* the argument unit: absent, or mm
TargetUnits == {Undefined, Str(<<"m", "m">>)}

\* the descriptors that differ in their series: units m and m, labels given
SeriesNames == {"a", "b"}
SeriesStyles == {Undefined, Str(<<>>), Str(<<"-">>), Str(<<"k">>),
                 Str(<<"k", "o">>), Str(<<"-", "x">>)}
SeriesSet == {Series(n, s) : n \in SeriesNames, s \in SeriesStyles}
StyleDescriptor(series) ==
    [xunit |-> Str(<<"m">>), yunit |-> Str(<<"m">>), xlabel |-> Str(<<"X">>),
     ylabel |-> Str(<<"Y">>), series |-> series]
SeriesLists(k) == {s \in SeqsUpTo(SeriesSet, k) : Len(s) = k}

RECURSIVE StyleArraysOf(_, _)
\* the arrays of at most n such descriptors with at most budget series in all
StyleArraysOf(n, budget) ==
    IF n = 0 THEN {<<>>}
    ELSE {<<>>} \cup
         UNION {{<<StyleDescriptor(s)>> \o rest :
                    s \in SeriesLists(k), rest \in StyleArraysOf(n - 1, budget - k)} :
                k \in 0..budget}
StyleArrays == StyleArraysOf(MaxDescr, MaxSeries) \ {<<>>}

\* the descriptors that differ in the names and the drawing of their series:
\* lines and circles coloured by name, a black circle, a black line with
\* circles, and a style with a character that is no style code
DrawnSet == {Series("a", Str(<<"-">>)), Series("b", Str(<<"-">>)),
             Series("b", Str(<<"-", "o">>)),
             Series("c", Str(<<"k", "o">>)), Series("c", Str(<<"k", "-", "o">>)),
             Series("a", Str(<<"-", "x">>))}
DrawnLists(k) == {s \in SeqsUpTo(DrawnSet, k) : Len(s) = k}

RECURSIVE DrawnArraysOf(_, _)
\* the arrays of at most n such descriptors with at most budget series in all
DrawnArraysOf(n, budget) ==
    IF n = 0 THEN {<<>>}
    ELSE {<<>>} \cup
         UNION {{<<StyleDescriptor(s)>> \o rest :
                    s \in DrawnLists(k), rest \in DrawnArraysOf(n - 1, budget - k)} :
                k \in 0..budget}
DrawnArrays == DrawnArraysOf(MaxDescr, MaxSeries + 1) \ {<<>>}

InitRender ==
    /\ pc = "idle"
    /\ calls = 0
    /\ plot_descr_array = <<>>
    /\ target_unit = Undefined
    /\ idx = 0
    /\ unit = Undefined
    /\ x_axis_label = NoLabel
    /\ y_axis_label = NoLabel
    /\ color_scale = NoColorScale
    /\ plots = <<>>
    /\ symbols = <<>>
    /\ error = NoError
    /\ chart_data = 0
    /\ destroyed = {}
    /\ rendered = 0

\* ------------------------------------------------------ render_plot actions
\* the call, up to the loop: an existing chart of the element is destroyed
RenderPlotEnter(a, u) ==
    /\ pc' = "loop"
    /\ calls' = calls + 1
    /\ plot_descr_array' = a
    /\ target_unit' = u
    /\ unit' = u
    /\ idx' = 0
    /\ x_axis_label' = NoLabel
    /\ y_axis_label' = NoLabel
    /\ color_scale' = NoColorScale
    /\ plots' = <<>>
    /\ symbols' = <<>>
    /\ error' = NoError
    /\ destroyed' = IF chart_data # 0 THEN destroyed \cup {chart_data}
                    ELSE destroyed
    /\ rendered' = IF chart_data # 0 /\ rendered = chart_data THEN 0
                   ELSE rendered
    /\ UNCHANGED <<chart_data, unit_vars, superscript_dict>>

\* a call render_plot(element, a, u) with arguments of the harness
RenderPlotCall(arrays, units) ==
    /\ pc = "idle"
    /\ calls < MaxCalls
    /\ \E a \in arrays, u \in units : RenderPlotEnter(a, u)
    /\ UNCHANGED <<globals, page_vars>>

\* the first call for the element
RenderPlotFirstCall(arrays, units) ==
    /\ calls = 0
    /\ RenderPlotCall(arrays, units)

Locals == [unit |-> unit, x_axis_label |-> x_axis_label,
           y_axis_label |-> y_axis_label, color_scale |-> color_scale,
           plots |-> plots, symbols |-> symbols, err |-> NoError]

\* unicode_unit runs unicode_superscript, which assigns the global, when a
\* label gets a unit with an exponent other than 1
LabelAssignsDict(plot_descr) ==
    \/ /\ ~x_axis_label.built
       /\ Truthy(split_unit(plot_descr.xunit).unit)
       /\ split_unit(plot_descr.xunit).exponent # One
    \/ /\ ~y_axis_label.built
       /\ Truthy(split_unit(plot_descr.yunit).unit)
       /\ split_unit(plot_descr.yunit).exponent # One

\* xlabel = plot_descr.xlabel and ylabel = plot_descr.ylabel assign globals
\* when the labels are built
LabelGlobals == (IF ~x_axis_label.built THEN {"xlabel"} ELSE {})
                    \cup (IF ~y_axis_label.built THEN {"ylabel"} ELSE {})

\* one turn of the loop over plot_descr_array that completes
RenderPlotLoop ==
    /\ pc = "loop"
    /\ idx < Len(plot_descr_array)
    /\ LET st == LoopBody(Locals, plot_descr_array[idx + 1], idx + 1)
       IN  /\ st.err = NoError
           /\ idx' = idx + 1
           /\ unit' = st.unit
           /\ x_axis_label' = st.x_axis_label
           /\ y_axis_label' = st.y_axis_label
           /\ color_scale' = st.color_scale
           /\ plots' = st.plots
           /\ symbols' = st.symbols
           /\ superscript_dict' =
                  IF LabelAssignsDict(plot_descr_array[idx + 1])
                  THEN "ascii_to_superscript" ELSE superscript_dict
           /\ globals' = globals \cup {"xunit", "yunit"} \cup LabelGlobals
    /\ UNCHANGED <<pc, calls, plot_descr_array, target_unit, error,
                   element_vars, unit_vars, page_vars>>

\* one turn of the loop that throws: the call ends without a chart
RenderPlotThrow ==
    /\ pc = "loop"
    /\ idx < Len(plot_descr_array)
    /\ LET st == LoopBody(Locals, plot_descr_array[idx + 1], idx + 1)
       IN  /\ st.err # NoError
           /\ pc' = "thrown"
           /\ error' = st.err
           /\ unit' = st.unit
           /\ x_axis_label' = st.x_axis_label
           /\ y_axis_label' = st.y_axis_label
           /\ color_scale' = st.color_scale
           /\ plots' = st.plots
           /\ symbols' = st.symbols
           /\ superscript_dict' =
                  IF st.err.message = "Cannot interpret style string: "
                     /\ LabelAssignsDict(plot_descr_array[idx + 1])
                  THEN "ascii_to_superscript" ELSE superscript_dict
           /\ globals' = globals \cup {"xunit", "yunit"} \cup
                  (IF st.err.message = "Cannot interpret style string: "
                   THEN LabelGlobals ELSE {})
    /\ UNCHANGED <<calls, plot_descr_array, target_unit, idx, element_vars,
                   unit_vars, page_vars>>

\* the end of a call that leaves the new chart out of the element's data
RenderPlotReturnUnstored ==
    /\ pc = "loop"
    /\ idx = Len(plot_descr_array)
    /\ pc' = "returned"
    /\ color_scale' = Rendered(color_scale, plots)
    /\ globals' = IF color_scale.domain # <<>> THEN globals \cup {"s"} ELSE globals
    /\ rendered' = calls
    /\ UNCHANGED <<calls, plot_descr_array, target_unit, idx, unit, x_axis_label,
                   y_axis_label, plots, symbols, error, destroyed, chart_data,
                   unit_vars, superscript_dict, page_vars>>

\* after the loop: the chart is built, rendered and stored with the element;
\* the legend's symbol callback assigns the global s for every entry
RenderPlotReturn ==
    /\ pc = "loop"
    /\ idx = Len(plot_descr_array)
    /\ pc' = "returned"
    /\ color_scale' = Rendered(color_scale, plots)
    /\ globals' = IF color_scale.domain # <<>> THEN globals \cup {"s"} ELSE globals
    /\ rendered' = calls
    /\ chart_data' = calls
    /\ UNCHANGED <<calls, plot_descr_array, target_unit, idx, unit, x_axis_label,
                   y_axis_label, plots, symbols, error, destroyed, unit_vars,
                   superscript_dict, page_vars>>

\* the call is over and its locals are gone
RenderPlotDone ==
    /\ pc \in {"returned", "thrown"}
    /\ pc' = "idle"
    /\ plot_descr_array' = <<>>
    /\ target_unit' = Undefined
    /\ idx' = 0
    /\ unit' = Undefined
    /\ x_axis_label' = NoLabel
    /\ y_axis_label' = NoLabel
    /\ color_scale' = NoColorScale
    /\ plots' = <<>>
    /\ symbols' = <<>>
    /\ error' = NoError
    /\ UNCHANGED <<calls, element_vars, unit_vars, superscript_dict, globals,
                   page_vars>>

Next ==
    \/ RenderPlotCall(PlotArrays, TargetUnits)
    \/ RenderPlotLoop
    \/ RenderPlotThrow
    \/ RenderPlotReturn
    \/ RenderPlotDone

NextStyles ==
    \/ RenderPlotCall(StyleArrays, {Undefined})
    \/ RenderPlotLoop
    \/ RenderPlotThrow
    \/ RenderPlotReturn
    \/ RenderPlotDone

\* ------------------------------------------------------------------- plot
\* the delay of the timeout that polls again (setTimeout(..., 1000))
PollDelay == 1000

InitPlot ==
    /\ src = 0
    /\ plot_calls = 0
    /\ in_flight = 0
    /\ done_func = [defined |-> FALSE, unit |-> Undefined]
    /\ timers = <<>>
    /\ data_array = <<>>
    /\ spinner = "hidden"
    /\ message = "none"
    /\ plot_pc = "idle"
    /\ chart_unit = Undefined

\* what the server answers to one request: the task is pending, has started,
\* has failed with an error in its result, or has a result to plot (one that
\* render_plot draws, one whose units it rejects)
Responses == {[task_state |-> "pe", result |-> "none"],
              [task_state |-> "st", result |-> "none"],
              [task_state |-> "fa", result |-> "error"],
              [task_state |-> "su", result |-> "plot"],
              [task_state |-> "su", result |-> "mismatch"]}
ResponseArrays(n) == {d \in SeqsUpTo(Responses, n) : Len(d) = n}
\* data[0].result of a response that has a result to plot
ResultOf(data) ==
    [xunit |-> Str(<<"m">>),
     yunit |-> IF data.result = "plot" THEN Str(<<"m">>) ELSE Str(<<"s">>),
     xlabel |-> Str(<<"X">>), ylabel |-> Str(<<"Y">>),
     series |-> <<Series("a", Str(<<"-">>))>>]
\* the units of the dropdown: mm
ClickUnits == {Str(<<"m", "m">>)}

\* data.task_state == 'pe' || data.task_state == 'st'
IsPending(data) == data.task_state = "pe" \/ data.task_state = "st"
\* 'error' in data.result
HasError(data) == data.result = "error"

RECURSIVE done_func_loop_error_first(_, _)
\* the loop of done_func looking for an error in all responses before it
\* looks for a pending task
done_func_loop_error_first(array, i) ==
    IF \E k \in 1..Len(array) : HasError(array[k]) THEN "error"
    ELSE IF \E k \in 1..Len(array) : IsPending(array[k]) THEN "poll"
    ELSE "render"

RECURSIVE done_func_loop(_, _)
\* the loop of done_func over data_array from position i on: "poll" when it
\* sets the timeout, "error" when it shows the server's error, "render" when
\* it ends without either
done_func_loop(array, i) ==
    IF i > Len(array) THEN "render"
    ELSE IF IsPending(array[i]) THEN "poll"
    ELSE IF HasError(array[i]) THEN "error"
    ELSE done_func_loop(array, i + 1)

\* plot(element, u) up to $.when: the spinner is shown, the requests are
\* sent and the global done_func is assigned
PlotEnter(u) ==
    /\ spinner' = "shown"
    /\ in_flight' = in_flight + 1
    /\ done_func' = [defined |-> TRUE, unit |-> u]
    /\ plot_calls' = plot_calls + 1

\* $(document).ready: plot(this) for the element
PlotOnReady ==
    /\ plot_calls = 0
    /\ plot_pc = "idle"
    /\ \E n \in 1..MaxRequests : src' = n
    /\ PlotEnter(Undefined)
    /\ globals' = globals \cup {"done_func"}
    /\ UNCHANGED <<timers, data_array, message, plot_pc, chart_unit, render_vars, unit_vars,
                   superscript_dict, card_vars, more_vars>>

\* a click on .topobank-change-unit: plot(element, unit)
PlotOnChangeUnit ==
    /\ plot_calls >= 1
    /\ plot_calls < MaxPolls
    /\ plot_pc = "idle"
    /\ \E u \in ClickUnits : PlotEnter(u)
    /\ globals' = globals \cup {"t", "unit", "done_func"}
    /\ UNCHANGED <<src, timers, data_array, message, plot_pc, chart_unit, render_vars, unit_vars,
                   superscript_dict, card_vars, more_vars>>

\* the timeout set by done_func fires: plot(element, unit)
PlotOnTimeout ==
    /\ timers # <<>>
    /\ plot_calls < MaxPolls
    /\ plot_pc = "idle"
    /\ PlotEnter(Head(timers).unit)
    /\ timers' = Tail(timers)
    /\ globals' = globals \cup {"done_func"}
    /\ UNCHANGED <<src, data_array, message, plot_pc, chart_unit, render_vars, unit_vars,
                   superscript_dict, card_vars, more_vars>>

\* all requests of a set have succeeded: $.when calls the global done_func
\* with the responses d
DoneFunc(d) ==
    /\ in_flight' = in_flight - 1
    /\ data_array' = d
    /\ LET outcome == done_func_loop(d, 1)
       IN  \/ /\ outcome = "poll"
              /\ timers' = Append(timers, [unit |-> done_func.unit,
                                           delay |-> PollDelay])
              /\ UNCHANGED <<message, plot_pc, render_vars, globals>>
           \/ /\ outcome = "error"
              /\ message' = "error"
              /\ rendered' = 0
              /\ UNCHANGED <<timers, plot_pc, pc, calls, local_vars, chart_data,
                             destroyed, globals>>
           \/ /\ outcome = "render"
              /\ calls < MaxCalls
              /\ RenderPlotEnter([i \in 1..Len(d) |-> ResultOf(d[i])], done_func.unit)
              /\ plot_pc' = "rendering"
              /\ globals' = globals \cup {"data"}
              /\ UNCHANGED <<timers, message>>
    /\ UNCHANGED <<src, plot_calls, done_func, spinner, chart_unit, unit_vars, superscript_dict,
                   card_vars, more_vars>>

WhenDone ==
    /\ in_flight > 0
    /\ plot_pc = "idle"
    /\ \E d \in ResponseArrays(src) : DoneFunc(d)

\* a request of a set has failed: the fail callback of $.when
WhenFail ==
    /\ in_flight > 0
    /\ plot_pc = "idle"
    /\ in_flight' = in_flight - 1
    /\ data_array' = <<>>
    /\ message' = "failed"
    /\ rendered' = 0
    /\ spinner' = "hidden"
    /\ UNCHANGED <<src, plot_calls, done_func, timers, plot_pc, chart_unit, pc, calls, local_vars,
                   chart_data, destroyed, unit_vars, superscript_dict, globals,
                   card_vars, more_vars>>

\* render_plot is over: done_func hides the spinner when it returned, and
\* ends at the throw when it threw
DoneFuncReturn ==
    /\ plot_pc = "rendering"
    /\ pc = "idle"
    /\ plot_pc' = "idle"
    /\ spinner' = IF rendered = calls THEN "hidden" ELSE spinner
    /\ chart_unit' = IF rendered = calls THEN done_func.unit ELSE chart_unit
    /\ UNCHANGED <<src, plot_calls, in_flight, done_func, timers, data_array, message,
                   render_vars, unit_vars, superscript_dict, globals, card_vars, more_vars>>

\* -------------------------------------------- submit_analyses_card_ajax
\* the delay of the timeout that calls again (setTimeout(..., 1000))
CardDelay == 1000
\* the arguments other than call_count
CardArgs == [card_url |-> "url", card_element_id |-> "card",
             template_flavor |-> "list", function_id |-> 1, subjects_ids |-> "ids"]
\* the status of a success response, the errorThrown of an error
SuccessStatus == {200, 201, 202}
ErrorsThrown == {"abort", "Internal Server Error"}
\* the argument call_count of the first call: omitted, or 0
Omitted == [t |-> "undefined", n |-> 0]
Number(n) == [t |-> "number", n |-> n]
FirstCallCounts == {Omitted, Number(0)}

InitCard ==
    /\ card_first = Omitted
    /\ card_calls = 0
    /\ card_requests = {}
    /\ card_timers = <<>>
    /\ card_html = [kind |-> "initial", call_count |-> 0]
    /\ card_alert = FALSE
    /\ card_wait_text = 0
    /\ card_writes = 0
    /\ card_last = [kind |-> "none", status |-> 0, call_count |-> 0]

\* if (call_count === undefined) call_count = 0
CallCount(call_count) == IF call_count.t = "undefined" THEN 0 ELSE call_count.n
\* '.'.repeat((call_count % 9) + 1)
Dots(call_count) == (call_count % 9) + 1
\* a write of the card on every success response
WritesCardAlways(call_count, status) == TRUE
\* (0 === call_count) || (200 === xhr.status)
WritesCard(call_count, status) == call_count = 0 \/ status = 200
\* a follow-up call with the call_count of the call before
FollowUpCountKept(call_count) == call_count
\* submit_analyses_card_ajax(..., call_count + 1)
FollowUpCount(call_count) == call_count + 1
\* a delay that grows with the number of calls
RetryDelayGrowing(call_count) == CardDelay * (call_count + 1)
\* setTimeout(function () { ... }, 1000)
RetryDelay(call_count) == CardDelay

\* submit_analyses_card_ajax(args..., call_count) up to $.ajax
SubmitCard(args, call_count) ==
    /\ card_calls' = card_calls + 1
    /\ card_wait_text' = Dots(CallCount(call_count))
    /\ card_requests' = card_requests \cup
           {[call_count |-> CallCount(call_count), args |-> args]}

\* the first call of the chain, by the page
CardFirstCall ==
    /\ card_calls = 0
    /\ \E c \in FirstCallCounts : card_first' = c /\ SubmitCard(CardArgs, c)
    /\ UNCHANGED <<card_timers, card_html, card_alert, card_writes, card_last,
                   plot_vars, render_vars, unit_vars, superscript_dict, globals,
                   more_vars>>

\* the timeout set by the success callback fires
CardOnTimeout ==
    /\ card_timers # <<>>
    /\ card_calls < MaxCardCalls
    /\ SubmitCard(Head(card_timers).args, Number(Head(card_timers).call_count))
    /\ card_timers' = Tail(card_timers)
    /\ UNCHANGED <<card_first, card_html, card_alert, card_writes, card_last,
                   plot_vars, render_vars, unit_vars, superscript_dict, globals,
                   more_vars>>

\* the success callback of a request
CardSuccess ==
    \E r \in card_requests, status \in SuccessStatus :
        /\ card_requests' = card_requests \ {r}
        /\ card_last' = [kind |-> "success", status |-> status,
                         call_count |-> r.call_count]
        /\ IF WritesCard(r.call_count, status)
           THEN /\ card_html' = [kind |-> "data", call_count |-> r.call_count]
                /\ card_writes' = card_writes + 1
           ELSE UNCHANGED <<card_html, card_writes>>
        /\ card_timers' =
               IF status = 202
               THEN Append(card_timers, [call_count |-> FollowUpCount(r.call_count),
                                         args |-> r.args,
                                         delay |-> RetryDelay(r.call_count)])
               ELSE card_timers
        /\ UNCHANGED <<card_first, card_calls, card_alert, card_wait_text,
                       plot_vars, render_vars, unit_vars, superscript_dict, globals,
                       more_vars>>

\* the error callback of a request
CardError ==
    \E r \in card_requests, errorThrown \in ErrorsThrown :
        /\ card_requests' = card_requests \ {r}
        /\ card_last' = [kind |-> errorThrown, status |-> 0,
                         call_count |-> r.call_count]
        /\ IF errorThrown # "abort"
           THEN /\ card_html' = [kind |-> "message", call_count |-> r.call_count]
                /\ card_alert' = TRUE
           ELSE UNCHANGED <<card_html, card_alert>>
        /\ UNCHANGED <<card_first, card_calls, card_timers, card_wait_text, card_writes,
                       plot_vars, render_vars, unit_vars, superscript_dict, globals,
                       more_vars>>

NextCard == CardFirstCall \/ CardOnTimeout \/ CardSuccess \/ CardError

\* ---------------------------------------------------- update_scatter_plot
\* the delay of the timeout that polls again (setTimeout(..., 1000))
ScatterDelay == 1000
\* what d3.json hands to the callback: an error, or the json of a task that
\* is pending, started, successful (result with hist and bin_edges) or
\* failed (result without hist)
ScatterResponses == {"error", "pe", "st", "su", "fa"}

InitScatter ==
    /\ scatter_calls = 0
    /\ scatter_requests = 0
    /\ scatter_timers = <<>>
    /\ scatter_warned = 0
    /\ scatter_graphs = 0
    /\ scatter_last = "none"

\* update_scatter_plot(div): console.log and d3.json(div.dataset.src, ...)
UpdateScatterPlot ==
    /\ scatter_calls' = scatter_calls + 1
    /\ scatter_requests' = scatter_requests + 1

\* d3.selectAll('.topobank-scatter-plot').each(...)
ScatterFirstCall ==
    /\ scatter_calls = 0
    /\ UpdateScatterPlot
    /\ UNCHANGED <<scatter_timers, scatter_warned, scatter_graphs, scatter_last,
                   old_vars, pool_vars, tree_vars>>

\* the timeout set by the callback fires
ScatterOnTimeout ==
    /\ scatter_timers # <<>>
    /\ scatter_calls < MaxScatterCalls
    /\ UpdateScatterPlot
    /\ scatter_timers' = Tail(scatter_timers)
    /\ UNCHANGED <<scatter_warned, scatter_graphs, scatter_last,
                   old_vars, pool_vars, tree_vars>>

\* the callback of d3.json with an error that polls again
ScatterCallbackRetrying(response) ==
    /\ scatter_warned' = IF response = "error" THEN scatter_warned + 1
                         ELSE scatter_warned
    /\ scatter_timers' = IF response \in {"error", "pe", "st"}
                         THEN Append(scatter_timers, ScatterDelay)
                         ELSE scatter_timers
    /\ scatter_graphs' = IF response = "su" THEN scatter_graphs + 1
                         ELSE scatter_graphs
\* function(error, json): if (error) return console.warn(error); a pending
\* or started task sets the timeout; else json.result.hist.map(...) throws
\* when result has no hist, and the graph is rendered when it has
ScatterCallback(response) ==
    /\ scatter_warned' = IF response = "error" THEN scatter_warned + 1
                         ELSE scatter_warned
    /\ scatter_timers' = IF response \in {"pe", "st"}
                         THEN Append(scatter_timers, ScatterDelay)
                         ELSE scatter_timers
    /\ scatter_graphs' = IF response = "su" THEN scatter_graphs + 1
                         ELSE scatter_graphs

\* a d3.json request settles
ScatterResponse ==
    /\ scatter_requests > 0
    /\ \E response \in ScatterResponses :
          /\ scatter_last' = response
          /\ ScatterCallback(response)
    /\ scatter_requests' = scatter_requests - 1
    /\ UNCHANGED <<scatter_calls, old_vars, pool_vars, tree_vars>>

NextScatter == ScatterFirstCall \/ ScatterOnTimeout \/ ScatterResponse

\* ------------- install_handler_for_aborting_all_ajax_calls_on_page_leave
Null == [t |-> "null", s |-> <<>>]
\* what a beforeunload handler installed earlier returns: nothing, null, or
\* a text that makes the browser prompt
HandlerResults == {Undefined, Null, Str(<<>>), Str(<<"s">>)}
NoHandler == [defined |-> FALSE, result |-> Undefined]
Handler(result) == [defined |-> TRUE, result |-> result]
OldHandlers == {NoHandler} \cup {Handler(r) : r \in HandlerResults}
NotCalled == [t |-> "not called", s |-> <<>>]
\* the jqXHR objects of the page
Requests == 1..MaxXhr

InitPool ==
    /\ installed = FALSE
    /\ oldbeforeunload = NoHandler
    /\ xhrPool = <<>>
    /\ xhr_sent = {}
    /\ xhr_sent_early = {}
    /\ xhr_complete = {}
    /\ xhr_aborted = {}
    /\ unload_result = NotCalled

\* the elements of a sequence
Elements(seq) == {seq[i] : i \in 1..Len(seq)}

\* the pool without its oldest request
GrepOldest(pool, jqXHR) == IF pool = <<>> THEN pool ELSE Tail(pool)
\* $.grep(xhrPool, function(x){return x!=jqXHR})
Grep(pool, jqXHR) == SelectSeq(pool, LAMBDA x : x # jqXHR)

\* r == undefined, with === in the place of ==
EqUndefinedStrict(r) == r.t = "undefined"
\* r == undefined
EqUndefined(r) == r.t \in {"undefined", "null"}

\* the function runs: var xhrPool = []; the handlers are bound;
\* var oldbeforeunload = window.onbeforeunload
InstallHandler ==
    /\ ~installed
    /\ installed' = TRUE
    /\ \E h \in OldHandlers : oldbeforeunload' = h
    /\ xhrPool' = <<>>
    /\ UNCHANGED <<xhr_sent, xhr_sent_early, xhr_complete, xhr_aborted, unload_result,
                   old_vars, scatter_vars, tree_vars>>

\* jQuery triggers ajaxSend for a new request
AjaxSend ==
    \E jqXHR \in Requests \ xhr_sent :
        /\ xhr_sent' = xhr_sent \cup {jqXHR}
        /\ xhr_sent_early' = IF installed THEN xhr_sent_early
                             ELSE xhr_sent_early \cup {jqXHR}
        /\ xhrPool' = IF installed THEN Append(xhrPool, jqXHR) ELSE xhrPool
        /\ UNCHANGED <<installed, oldbeforeunload, xhr_complete, xhr_aborted,
                       unload_result, old_vars, scatter_vars, tree_vars>>

\* jQuery triggers ajaxComplete for a request that has not completed
AjaxComplete ==
    \E jqXHR \in xhr_sent \ xhr_complete :
        /\ xhr_complete' = xhr_complete \cup {jqXHR}
        /\ xhrPool' = IF installed THEN Grep(xhrPool, jqXHR) ELSE xhrPool
        /\ UNCHANGED <<installed, oldbeforeunload, xhr_sent, xhr_sent_early,
                       xhr_aborted, unload_result, old_vars, scatter_vars, tree_vars>>

\* window.onbeforeunload is called: the installed handler; abort() of a
\* request completes it at once, which triggers ajaxComplete for it
BeforeUnload ==
    /\ installed
    /\ LET r == IF oldbeforeunload.defined THEN oldbeforeunload.result ELSE Undefined
       IN  /\ unload_result' = r
           /\ IF EqUndefined(r)
              THEN /\ xhr_aborted' = xhr_aborted \cup Elements(xhrPool)
                   /\ xhr_complete' = xhr_complete \cup Elements(xhrPool)
                   /\ xhrPool' = <<>>
              ELSE UNCHANGED <<xhr_aborted, xhr_complete, xhrPool>>
    /\ UNCHANGED <<installed, oldbeforeunload, xhr_sent, xhr_sent_early,
                   old_vars, scatter_vars, tree_vars>>

NextPool == InstallHandler \/ AjaxSend \/ AjaxComplete \/ BeforeUnload

\* --------------------------------------- search_results_vm: search, reload
SearchTerms == {"", "a"}
Categories == {"all", "exp"}
SharingStatuses == {"all", "own"}
PageSizes == {10, 25}
TreeModes == {"surface list", "tag tree"}
Pages == 1..MaxPage
\* base_urls: one URL for each tree mode
base_urls == [m \in TreeModes |->
                 IF m = "surface list" THEN "/search/surfaces" ELSE "/search/tags"]
NoSource == [url |-> "none", search |-> "", category |-> "", sharing_status |-> "",
             page_size |-> 0, page |-> 0, tree_mode |-> ""]
\* page_urls[page_no - 1]: a URL the server made for a page
page_urls(page_no) == [NoSource EXCEPT !.url = "page_url", !.page = page_no]

\* initial_select_tab_state is the state of the first page of a search
InitSearch ==
    /\ mounted = FALSE
    /\ current_page = 1
    /\ page_size = 10
    /\ search_term = ""
    /\ category = "all"
    /\ sharing_status = "all"
    /\ tree_mode = "surface list"
    /\ page_range = 0
    /\ is_loading = FALSE
    /\ source = NoSource
    /\ tree_loads = 0
    /\ vm_last = "none"

\* the computed property search_url for the state given: the base URL of
\* the tree mode with the six query parameters set
search_url(term, cat, sharing, size, page, mode) ==
    [url |-> base_urls[mode], search |-> term, category |-> cat,
     sharing_status |-> sharing, page_size |-> size, page |-> page,
     tree_mode |-> mode]

\* the tree gets a source and requests it; set_loading_indicator()
SetSource(url) ==
    /\ source' = url
    /\ tree_loads' = IF tree_loads < MaxLoads THEN tree_loads + 1 ELSE tree_loads
    /\ is_loading' = TRUE

\* mounted(): fancytree({... source: {url: this.search_url.toString()} ...})
Mounted ==
    /\ ~mounted
    /\ mounted' = TRUE
    /\ vm_last' = "mounted"
    /\ SetSource(search_url(search_term, category, sharing_status, page_size,
                            current_page, tree_mode))
    /\ UNCHANGED <<current_page, page_size, search_term, category, sharing_status,
                   tree_mode, page_range, old_vars, scatter_vars, pool_vars, select_vars>>

\* the user edits a field of the select tab
UserInput ==
    /\ mounted
    /\ \/ \E t \in SearchTerms : search_term' = t
             /\ UNCHANGED <<category, sharing_status, page_size, tree_mode>>
       \/ \E c \in Categories : category' = c
             /\ UNCHANGED <<search_term, sharing_status, page_size, tree_mode>>
       \/ \E h \in SharingStatuses : sharing_status' = h
             /\ UNCHANGED <<search_term, category, page_size, tree_mode>>
       \/ \E z \in PageSizes : page_size' = z
             /\ UNCHANGED <<search_term, category, sharing_status, tree_mode>>
       \/ \E m \in TreeModes : tree_mode' = m
             /\ UNCHANGED <<search_term, category, sharing_status, page_size>>
    /\ vm_last' = "input"
    /\ UNCHANGED <<mounted, current_page, page_range, is_loading, source, tree_loads,
                   old_vars, scatter_vars, pool_vars, select_vars>>

\* postProcess: the state of the response is taken over
PostProcess ==
    /\ tree_loads > 0
    /\ tree_loads' = tree_loads - 1
    /\ \E n \in Pages, c \in Pages, z \in PageSizes :
          /\ c <= n
          /\ page_range' = n
          /\ current_page' = c
          /\ page_size' = z
    /\ is_loading' = FALSE
    /\ vm_last' = "postProcess"
    /\ UNCHANGED <<mounted, search_term, category, sharing_status, tree_mode, source,
                   old_vars, scatter_vars, pool_vars, select_vars>>

\* reload() with the page number left as it is
ReloadKeepingPage(term) ==
    /\ mounted
    /\ search_term' = term
    /\ current_page' = current_page
    /\ SetSource(search_url(term, category, sharing_status, page_size,
                            current_page', tree_mode))
    /\ UNCHANGED <<mounted, page_size, category, sharing_status, tree_mode,
                   page_range, old_vars, scatter_vars, pool_vars, select_vars>>
\* reload(), search_term being term: this.current_page = 1;
\* tree.setOption('source', {url: this.search_url.toString()});
\* this.set_loading_indicator()
Reload(term) ==
    /\ mounted
    /\ search_term' = term
    /\ current_page' = 1
    /\ SetSource(search_url(term, category, sharing_status, page_size,
                            current_page', tree_mode))
    /\ UNCHANGED <<mounted, page_size, category, sharing_status, tree_mode,
                   page_range, old_vars, scatter_vars, pool_vars, select_vars>>

\* reload() called by the page
ReloadCall == vm_last' = "reload" /\ Reload(search_term)

\* clear_search_term(): this.search_term = ''; this.reload()
ClearSearchTerm == vm_last' = "clear_search_term" /\ Reload("")

\* load_page(page_no): a valid page is requested by its URL; an invalid one
\* is warned about
LoadPage ==
    /\ mounted
    /\ page_range > 0
    /\ \E page_no \in 0..(MaxPage + 1) :
          IF page_no >= 1 /\ page_no <= page_range
          THEN SetSource(page_urls(page_no))
          ELSE UNCHANGED <<source, tree_loads, is_loading>>
    /\ vm_last' = "load_page"
    /\ UNCHANGED <<mounted, current_page, page_size, search_term, category,
                   sharing_status, tree_mode, page_range, old_vars, scatter_vars,
                   pool_vars, select_vars>>

NextSearch ==
    \/ Mounted
    \/ UserInput
    \/ PostProcess
    \/ ReloadCall
    \/ ClearSearchTerm
    \/ LoadPage

\* ------------------------------------ search_results_vm: select, unselect
\* the nodes of the tree: two with the same key (an item shown under two
\* tags) and one without urls
Nodes == 1..3
key == [n \in Nodes |-> IF n <= 2 THEN "topography-1" ELSE "tag-1"]
\* node.data.urls !== undefined
HasUrls(n) == n <= 2

InitSelect ==
    /\ node_selected = [n \in Nodes |-> FALSE]
    /\ select_requests = {}
    /\ select_sent = 0
    /\ acknowledged = FALSE
    /\ basket = "none"
    /\ select_last = "none"

\* set_selected_by_key(k, selected): every node with the key is set,
\* without events
set_selected_by_key(selected_of, k, selected) ==
    [n \in Nodes |-> IF key[n] = k THEN selected ELSE selected_of[n]]

\* the user clicks the checkbox of a node: the tree toggles the node and
\* calls select, which posts to urls.select or urls.unselect, or updates
\* the basket when the node has no urls
ClickCheckbox ==
    \E node \in Nodes :
        LET is_selected == ~node_selected[node]
        IN  /\ node_selected' = [node_selected EXCEPT ![node] = is_selected]
            /\ IF HasUrls(node)
               THEN /\ select_sent < MaxClicks
                    /\ select_sent' = select_sent + 1
                    /\ select_requests' = select_requests \cup
                           {[id |-> select_sent + 1, node |-> node,
                             selected |-> is_selected]}
                    /\ UNCHANGED basket
               ELSE /\ basket' = "undefined"
                    /\ UNCHANGED <<select_sent, select_requests>>
            /\ select_last' = "select"
            /\ UNCHANGED <<acknowledged, old_vars, scatter_vars, pool_vars, search_vars>>

\* the success callback of a request: basket.update(data);
\* vm.set_selected_by_key(node.key, true or false)
SelectSuccess ==
    \E r \in select_requests :
        /\ select_requests' = select_requests \ {r}
        /\ basket' = IF r.selected THEN "selected" ELSE "unselected"
        /\ node_selected' = set_selected_by_key(node_selected, key[r.node],
                                                r.selected)
        /\ acknowledged' = r.selected
        /\ select_last' = "success"
        /\ UNCHANGED <<select_sent, old_vars, scatter_vars, pool_vars, search_vars>>

\* the error callback of a request: console.error
SelectError ==
    \E r \in select_requests :
        /\ select_requests' = select_requests \ {r}
        /\ select_last' = "error"
        /\ UNCHANGED <<node_selected, select_sent, acknowledged, basket,
                       old_vars, scatter_vars, pool_vars, search_vars>>

NextSelect == ClickCheckbox \/ SelectSuccess \/ SelectError

\* the two polling chains of plotting.js side by side
NextChains == NextCard \/ NextScatter

NextPlot ==
    \/ PlotOnReady
    \/ PlotOnChangeUnit
    \/ PlotOnTimeout
    \/ WhenDone
    \/ WhenFail
    \/ RenderPlotLoop
    \/ RenderPlotThrow
    \/ RenderPlotReturn
    \/ RenderPlotDone
    \/ DoneFuncReturn

NextSeries ==
    \/ RenderPlotFirstCall(DrawnArrays, {Undefined})
    \/ RenderPlotLoop
    \/ RenderPlotThrow
    \/ RenderPlotReturn
    \/ RenderPlotDone

Init == /\ InitUnits /\ InitRender /\ InitPlot /\ InitCard /\ InitScatter
        /\ InitPool /\ InitSearch /\ InitSelect
        /\ superscript_dict = "undefined" /\ globals = {}

SpecUnits == Init /\ [][NextUnits]_vars

Spec == Init /\ [][Next]_vars

SpecStyles == Init /\ [][NextStyles]_vars

SpecSeries == Init /\ [][NextSeries]_vars

SpecPlot == Init /\ [][NextPlot]_vars

SpecCard == Init /\ [][NextCard]_vars

SpecChains == Init /\ [][NextChains]_vars

SpecPool == Init /\ [][NextPool]_vars

SpecSearch == Init /\ [][NextSearch]_vars

SpecSelect == Init /\ [][NextSelect]_vars

\* =========================================================================
\* Properties of the unit helpers (checked under SpecUnits)
\* =========================================================================
SuperscriptGlyphs == {"^0", "^1", "^2", "^3", "^4", "^5", "^6", "^7", "^8", "^9",
                      "^+", "^-", "^."}
GlyphTable == {<<"^0", "0">>, <<"^1", "1">>, <<"^2", "2">>, <<"^3", "3">>,
               <<"^4", "4">>, <<"^5", "5">>, <<"^6", "6">>, <<"^7", "7">>,
               <<"^8", "8">>, <<"^9", "9">>, <<"^+", "+">>, <<"^-", "-">>,
               <<"^.", ".">>}
IsGlyph(c) == c \in SuperscriptGlyphs
IsNoGlyph(c) == c \notin SuperscriptGlyphs
AsciiOfGlyph(g) == (CHOOSE p \in GlyphTable : p[1] = g)[2]
GlyphOfAscii(a) == (CHOOSE p \in GlyphTable : p[2] = a)[1]

RECURSIVE Pow10(_)
Pow10(k) == IF k = 0 THEN 1 ELSE 10 * Pow10(k - 1)

RECURSIVE PlaceValueSum(_, _)
\* the decimal value of the first k characters of ds, all digits
PlaceValueSum(ds, k) ==
    IF k = 0 THEN 0
    ELSE DigitVal(ds[k]) + 10 * PlaceValueSum(ds, k - 1)

\* the integer a reader takes from txt: an optional sign and the digits that
\* follow it, up to the first character that is no digit; NaN when no digit
\* follows
IntegerRead(txt) ==
    LET signed == txt # <<>> /\ Head(txt) \in {"+", "-"}
        body == IF signed THEN Tail(txt) ELSE txt
        runs == {n \in 0..Len(body) : \A i \in 1..n : IsDigit(body[i])}
        k == CHOOSE n \in runs : \A o \in runs : o <= n
        magnitude == PlaceValueSum(body, k)
    IN  IF k = 0 THEN NaN
        ELSE IF signed /\ Head(txt) = "-" THEN IntNum(0 - magnitude)
        ELSE IntNum(magnitude)

SplitDone == test \in {"split_unit", "round_trip"}

\* C1: for every base unit u without digits and superscript glyphs and every
\* integer e # 0, split_unit(unicode_unit(u, e)) is {unit: u, exponent: e}.
C1_RoundTrip ==
    (/\ test = "round_trip"
     /\ \A i \in 1..Len(fmt_unit) : ~IsDigit(fmt_unit[i]) /\ IsNoGlyph(fmt_unit[i])
     /\ IsInteger(fmt_exponent) /\ fmt_exponent # IntNum(0))
    => parsed = [unit |-> Str(fmt_unit), exponent |-> fmt_exponent]

\* C2: the exponent split_unit returns is an integer for every input string.
C2_ExponentIsInteger ==
    SplitDone => IsInteger(parsed.exponent)

\* C3: split_unit returns unit undefined exactly for an empty or absent
\* input, then with exponent 1; for a non-empty input the unit is a string.
C3_UndefinedIffEmpty ==
    SplitDone =>
        LET empty == unit_str = Undefined \/ unit_str = Str(<<>>)
        IN  /\ IsUndefined(parsed.unit) <=> empty
            /\ empty => parsed.exponent = IntNum(1)
            /\ ~empty => parsed.unit.t = "string"

C3_Witness ==
    /\ test = "split_unit"
    /\ unit_str = Str(<<>>)
    /\ IsUndefined(parsed.unit)

\* C4: for a non-empty input the unit is the subsequence of the characters
\* that are no superscript glyphs and the exponent is the integer read from
\* the subsequence of the glyphs mapped to ASCII, wherever the glyphs stand;
\* without any glyph the exponent is 1 and the unit is the whole input.
C4_Partition ==
    (SplitDone /\ unit_str # Undefined /\ unit_str # Str(<<>>)) =>
        LET glyphs == SelectSeq(unit_str.s, IsGlyph)
            txt == [i \in 1..Len(glyphs) |-> AsciiOfGlyph(glyphs[i])]
        IN  /\ parsed.unit = Str(SelectSeq(unit_str.s, IsNoGlyph))
            /\ glyphs # <<>> => parsed.exponent = IntegerRead(txt)
            /\ glyphs = <<>> => /\ parsed.exponent = IntNum(1)
                                 /\ parsed.unit = unit_str

\* a glyph stands before a unit character and an exponent other than 1 is read
C4_Witness ==
    /\ test = "split_unit"
    /\ unit_str # Undefined
    /\ \E i, j \in 1..Len(unit_str.s) :
           i < j /\ IsGlyph(unit_str.s[i]) /\ IsNoGlyph(unit_str.s[j])
    /\ parsed.exponent = IntNum(12)

\* C5: unicode_unit returns the unit when the exponent is 1 and otherwise the
\* unit, unchanged, followed by the superscript glyphs of the exponent's
\* sign and digits.
C5_UnitKept ==
    (test = "unicode_unit" /\ IsInteger(fmt_exponent)) =>
        LET digits == NumberToString(fmt_exponent)
        IN  formatted =
                IF fmt_exponent = IntNum(1) THEN fmt_unit
                ELSE fmt_unit \o [i \in 1..Len(digits) |-> GlyphOfAscii(digits[i])]

\* =========================================================================
\* Properties of render_plot (checked under Spec and SpecStyles)
\* =========================================================================
Min(S) == CHOOSE n \in S : \A o \in S : n <= o
Finished == pc \in {"returned", "thrown"}
InCall == pc \in {"loop", "returned", "thrown"}
XUnit(i) == split_unit(plot_descr_array[i].xunit)
YUnit(i) == split_unit(plot_descr_array[i].yunit)

\* the descriptors whose x and y base units differ
Mismatching == {i \in 1..Len(plot_descr_array) : XUnit(i).unit # YUnit(i).unit}

\* C6 as stated: a descriptor with different x and y base units, at any
\* position, makes render_plot fail with the unit mismatch error and render
\* no chart; without such a descriptor that error is not raised.
C6_MismatchAlwaysReported ==
    Finished =>
        /\ Mismatching # {} => /\ pc = "thrown"
                               /\ error = UnitMismatchError
                               /\ rendered # calls
        /\ Mismatching = {} => error # UnitMismatchError

\* C6 amended: a descriptor with different x and y base units makes
\* render_plot fail and render no chart; the error is the unit mismatch error
\* exactly when the loop reaches the first such descriptor, and the conversion
\* or style error of an earlier descriptor otherwise; without such a
\* descriptor the unit mismatch error is not raised.
C6_MismatchReportedWhenReached ==
    Finished =>
        /\ Mismatching # {} =>
              /\ pc = "thrown"
              /\ rendered # calls /\ chart_data # calls
              /\ error = UnitMismatchError <=> idx + 1 = Min(Mismatching)
              /\ error # UnitMismatchError => idx + 1 < Min(Mismatching)
        /\ Mismatching = {} => error # UnitMismatchError

\* the mismatch of the second descriptor is reported
C6_Witness ==
    /\ pc = "thrown"
    /\ error = UnitMismatchError
    /\ idx = 1
    /\ Mismatching = {2}

\* the descriptors among the first n whose x base unit is not empty
WithUnit(n) == {i \in 1..n : Truthy(XUnit(i).unit)}
\* the display unit the descriptor at position n is handled with
DisplayUnitAt(n) ==
    IF Truthy(target_unit) THEN target_unit
    ELSE IF WithUnit(n) # {} THEN XUnit(Min(WithUnit(n))).unit
    ELSE Undefined

RatioTable == {<<<<"m">>, 0>>, <<<<"m", "m">>, -3>>, <<<<"s">>, 0>>}
RatioE(from, to) ==
    (CHOOSE p \in RatioTable : p[1] = from.s)[2]
        - (CHOOSE p \in RatioTable : p[1] = to.s)[2]
\* 10^(r * n) * v
Scaled(r, n, v) == [nan |-> FALSE, m |-> v.m, e |-> v.e + r * n.m]

\* C8: every point (x, y) of a series of a descriptor with ratio r to the
\* display unit and exponents ex and ey is output as (r^ex * x, r^ey * y);
\* the number and the order of the points are kept.
C8_PointsScaled ==
    InCall =>
        \A k \in 1..Len(plots) :
            LET p == plots[k]
                item == plot_descr_array[p.descr].series[p.series]
                display == DisplayUnitAt(p.descr)
            IN  /\ Len(p.data) = Len(item.x)
                /\ Len(p.data) = Len(item.y)
                /\ Truthy(display) =>
                      LET r == RatioE(XUnit(p.descr).unit, display)
                      IN  \A i \in 1..Len(p.data) :
                              /\ p.data[i].x = Scaled(r, XUnit(p.descr).exponent, item.x[i])
                              /\ p.data[i].y = Scaled(r, YUnit(p.descr).exponent, item.y[i])
                /\ ~Truthy(display) =>
                      \A i \in 1..Len(p.data) :
                          p.data[i] = [x |-> item.x[i], y |-> item.y[i]]

\* a chart with a series scaled by 10^-3 in x and 10^-6 in y
C8_Witness ==
    /\ pc = "returned"
    /\ \E k \in 1..Len(plots) :
          /\ plots[k].data[1].x.e = -3
          /\ plots[k].data[1].y.e = -6

\* the text of an axis label built from a descriptor's label, the parsed unit
\* of the axis and the display unit
ExpectedLabelText(label, axis_unit, display) ==
    IF axis_unit.unit = Undefined \/ axis_unit.unit = Str(<<>>) THEN label
    ELSE Str((IF label = Undefined THEN <<"u", "n", "d", "e", "f", "i", "n", "e", "d">>
              ELSE label.s)
             \o <<" ", "(">> \o unicode_unit(display.s, axis_unit.exponent)
             \o <<")">>)

\* the descriptors that define an x label, a y label
WithXLabel == {i \in 1..Len(plot_descr_array) : plot_descr_array[i].xlabel # Undefined}
WithYLabel == {i \in 1..Len(plot_descr_array) : plot_descr_array[i].ylabel # Undefined}

\* C9 as stated: each axis label is built once, from the first descriptor that
\* defines that label, as the label text followed by the display unit in
\* parentheses exactly when a unit is present.
C9_LabelOfFirstDefining ==
    pc = "returned" =>
        /\ WithXLabel # {} =>
              LET i == Min(WithXLabel)
              IN  x_axis_label.text =
                      ExpectedLabelText(plot_descr_array[i].xlabel, XUnit(i),
                                        DisplayUnitAt(i))
        /\ WithYLabel # {} =>
              LET i == Min(WithYLabel)
              IN  y_axis_label.text =
                      ExpectedLabelText(plot_descr_array[i].ylabel, YUnit(i),
                                        DisplayUnitAt(i))

\* C9 amended: once the loop has completed the first descriptor each axis
\* label is built, from that first descriptor whether or not it defines the
\* label text, as the text followed by the display unit in parentheses
\* exactly when the descriptor's unit is present; later descriptors never
\* change it. Before that no label is built.
C9_LabelOfFirstDescriptor ==
    /\ (InCall /\ idx >= 1) =>
          /\ x_axis_label =
                 [built |-> TRUE,
                  text |-> ExpectedLabelText(plot_descr_array[1].xlabel, XUnit(1),
                                             DisplayUnitAt(1))]
          /\ y_axis_label =
                 [built |-> TRUE,
                  text |-> ExpectedLabelText(plot_descr_array[1].ylabel, YUnit(1),
                                             DisplayUnitAt(1))]
    /\ (pc = "loop" /\ idx = 0) => ~x_axis_label.built /\ ~y_axis_label.built

\* two descriptors with different labels and units were rendered, the first
\* with a unit and a label text
C9_Witness ==
    /\ pc = "returned"
    /\ idx = 2
    /\ plot_descr_array[1].xlabel # plot_descr_array[2].xlabel
    /\ XUnit(1) # XUnit(2)
    /\ Truthy(XUnit(1).unit)
    /\ plot_descr_array[1].xlabel # Undefined

\* the primitives of the series at position s of the descriptor at position d
HasPrimitive(d, s, kind) ==
    \E k \in 1..Len(plots) :
        plots[k].descr = d /\ plots[k].series = s /\ plots[k].kind = kind
Chars(style) == {style[i] : i \in 1..Len(style)}
SymbolCodes == {"o", "+", "d", "s", "^", "y"}
\* the series of the descriptors the loop has completed
Completed ==
    UNION {{<<d, s>> : s \in 1..Len(plot_descr_array[d].series)} : d \in 1..idx}

\* C10 as stated: a series has a line primitive iff its style has '-', and a
\* symbol primitive iff its style has a symbol code; with an empty style it
\* has neither.
C10_EmptyStyleNothing ==
    pc \in {"loop", "returned"} =>
        \A c \in Completed :
            LET style == plot_descr_array[c[1]].series[c[2]].style.s
            IN  /\ HasPrimitive(c[1], c[2], "Line") <=> "-" \in Chars(style)
                /\ HasPrimitive(c[1], c[2], "Scatter")
                       <=> Chars(style) \cap SymbolCodes # {}

\* C10 amended: a series whose style is empty or absent is drawn with the
\* default style 'k-', a black line and no symbol; in general a series has a
\* line primitive iff its style, or 'k-' in place of an empty one, has '-',
\* and a symbol primitive iff that style has a symbol code.
C10_EmptyStyleDefault ==
    pc \in {"loop", "returned"} =>
        \A c \in Completed :
            LET given == plot_descr_array[c[1]].series[c[2]].style
                style == IF given = Undefined \/ given = Str(<<>>)
                         THEN <<"k", "-">> ELSE given.s
            IN  /\ HasPrimitive(c[1], c[2], "Line") <=> "-" \in Chars(style)
                /\ HasPrimitive(c[1], c[2], "Scatter")
                       <=> Chars(style) \cap SymbolCodes # {}
                /\ (given = Str(<<>>)) =>
                       \E k \in 1..Len(plots) :
                           /\ plots[k].descr = c[1] /\ plots[k].series = c[2]
                           /\ plots[k].kind = "Line"
                           /\ plots[k].stroke = [by |-> "color", v |-> "black"]

\* a chart with a series of empty style and one with only a colour code
C10_Witness ==
    /\ pc = "returned"
    /\ \E c \in Completed :
          /\ plot_descr_array[c[1]].series[c[2]].style = Str(<<>>)
          /\ HasPrimitive(c[1], c[2], "Line")
    /\ \E c \in Completed :
          /\ plot_descr_array[c[1]].series[c[2]].style = Str(<<"k">>)
          /\ ~HasPrimitive(c[1], c[2], "Line")
          /\ ~HasPrimitive(c[1], c[2], "Scatter")

\* the primitives of the series at position s of the descriptor at position d
PrimitivesOf(d, s) ==
    {k \in 1..Len(plots) : plots[k].descr = d /\ plots[k].series = s}
ColorCodes == {"k", "r"}
ColorName(c) == IF c = "k" THEN "black" ELSE "red"

\* C11 as stated: a series whose style is a colour code followed by a symbol
\* code has both a line primitive and a symbol primitive, both in the colour
\* the code names.
C11_ColourSymbolBoth ==
    pc \in {"loop", "returned"} =>
        \A c \in Completed :
            LET style == plot_descr_array[c[1]].series[c[2]].style.s
            IN  (Len(style) = 2 /\ style[1] \in ColorCodes /\ style[2] \in SymbolCodes) =>
                    /\ HasPrimitive(c[1], c[2], "Line")
                    /\ HasPrimitive(c[1], c[2], "Scatter")
                    /\ \A k \in PrimitivesOf(c[1], c[2]) :
                           plots[k].stroke = [by |-> "color", v |-> ColorName(style[1])]

\* C11 amended: a series whose style is a colour code followed by a symbol
\* code has a symbol primitive in the colour the code names and no line
\* primitive; it has both, in that colour, when the style has a '-' as well.
C11_ColourSymbolOnly ==
    pc \in {"loop", "returned"} =>
        \A c \in Completed :
            LET style == plot_descr_array[c[1]].series[c[2]].style.s
            IN  /\ (Len(style) = 2 /\ style[1] \in ColorCodes
                        /\ style[2] \in SymbolCodes) =>
                       /\ ~HasPrimitive(c[1], c[2], "Line")
                       /\ HasPrimitive(c[1], c[2], "Scatter")
                       /\ \A k \in PrimitivesOf(c[1], c[2]) :
                              plots[k].stroke = [by |-> "color", v |-> ColorName(style[1])]
                /\ (Chars(style) \cap ColorCodes # {} /\ Chars(style) \cap SymbolCodes # {}
                        /\ "-" \in Chars(style)) =>
                       /\ HasPrimitive(c[1], c[2], "Line")
                       /\ HasPrimitive(c[1], c[2], "Scatter")
                       /\ \A k \in PrimitivesOf(c[1], c[2]) :
                              plots[k].stroke.by = "color"

\* a chart with a series of style "ko" and a series of style "k-o"
C11_Witness ==
    /\ pc = "returned"
    /\ \E c \in Completed :
          /\ plot_descr_array[c[1]].series[c[2]].style = Str(<<"k", "o">>)
          /\ Cardinality(PrimitivesOf(c[1], c[2])) = 1
    /\ \E c \in Completed :
          /\ plot_descr_array[c[1]].series[c[2]].style = Str(<<"k", "-", "o">>)
          /\ Cardinality(PrimitivesOf(c[1], c[2])) = 2

\* the style a series is drawn with
StyleOf(item) == IF item.style = Undefined \/ item.style = Str(<<>>)
                 THEN <<"k", "-">> ELSE item.style.s
StyleCodes == {"-"} \cup ColorCodes \cup SymbolCodes
\* the series of the descriptor at position d whose style has a character
\* that is no style code
BadSeries(d) ==
    {k \in 1..Len(plot_descr_array[d].series) :
        ~(Chars(StyleOf(plot_descr_array[d].series[k])) \subseteq StyleCodes)}
BadStyled == {d \in 1..Len(plot_descr_array) : BadSeries(d) # {}}
IsStyleError(e) == e.name = "TypeError" /\ e.message = "Cannot interpret style string: "

\* C12 as stated: a series whose style has a character that is no style code
\* makes render_plot fail with the style error and render no chart; styles
\* made of style codes only never raise that error.
C12_StyleAlwaysReported ==
    Finished =>
        /\ BadStyled # {} => /\ pc = "thrown"
                             /\ IsStyleError(error)
                             /\ rendered # calls
        /\ BadStyled = {} => ~IsStyleError(error)

\* C12 amended: such a series makes render_plot fail and render no chart; the
\* error is the style error, carrying that style, exactly when the loop
\* reaches the first such series, that is when its descriptor and the ones
\* before it pass the unit check and the conversion; otherwise it is the
\* unit mismatch or conversion error met first. Styles made of style codes
\* only never raise the style error.
C12_StyleReportedWhenReached ==
    Finished =>
        /\ BadStyled # {} =>
              LET d == Min(BadStyled)
                  first == plot_descr_array[d].series[Min(BadSeries(d))]
              IN  /\ pc = "thrown"
                  /\ rendered # calls /\ chart_data # calls
                  /\ idx + 1 <= d
                  /\ IsStyleError(error) =>
                         idx + 1 = d /\ error = StyleError(StyleOf(first))
                  /\ ~IsStyleError(error) => error \in {UnitMismatchError, ConvertError}
                  /\ IsStyleError(error) <=>
                         /\ idx + 1 = d
                         /\ XUnit(d).unit = YUnit(d).unit
                         /\ ~(Truthy(DisplayUnitAt(d))
                                /\ ConvertThrows(XUnit(d).unit, DisplayUnitAt(d)))
        /\ BadStyled = {} => ~IsStyleError(error)

\* the style error of the second descriptor is reported
C12_Witness ==
    /\ pc = "thrown"
    /\ IsStyleError(error)
    /\ idx = 1
    /\ BadStyled = {2}

\* C13: the primitives are ordered by descriptor, then by series within the
\* descriptor, and the line of a series stands immediately before its
\* symbols; no primitive of a later series precedes one of an earlier series.
C13_PrimitivesOrdered ==
    InCall =>
        \A k, l \in 1..Len(plots) :
            k < l =>
                /\ plots[k].descr <= plots[l].descr
                /\ plots[k].descr = plots[l].descr => plots[k].series <= plots[l].series
                /\ (plots[k].descr = plots[l].descr /\ plots[k].series = plots[l].series) =>
                       /\ plots[k].kind = "Line"
                       /\ plots[l].kind = "Scatter"
                       /\ l = k + 1

\* a chart of two descriptors whose first series has a line and symbols and
\* is followed by the primitive of another series
C13_Witness ==
    /\ pc = "returned"
    /\ idx = 2
    /\ Len(plots) = 3
    /\ plots[1].kind = "Line" /\ plots[2].kind = "Scatter"
    /\ plots[1].series = plots[2].series /\ plots[1].descr = 1
    /\ plots[3].descr = 2

\* the place of a name in a sequence of names, 0 when it is not there
PlaceIn(names, n) ==
    IF \E i \in 1..Len(names) : names[i] = n
    THEN CHOOSE i \in 1..Len(names) : names[i] = n
    ELSE 0
\* the colour of the scale a primitive coloured by name is drawn with, as
\* its place in the palette
PaletteColor(p) == PlaceIn(color_scale.domain, p.stroke.v)

HasColorCode(item) == Chars(StyleOf(item)) \cap ColorCodes # {}
NoColorCode(item) == ~HasColorCode(item)

RECURSIVE NamesFrom(_, _)
\* the names of the series of the descriptors from position d on, in input
\* order: of all series, or of those without colour code only
NamesFrom(d, all) ==
    IF d > Len(plot_descr_array) THEN <<>>
    ELSE LET series == plot_descr_array[d].series
             kept == IF all THEN series ELSE SelectSeq(series, NoColorCode)
         IN  [k \in 1..Len(kept) |-> kept[k].name] \o NamesFrom(d + 1, all)

\* the colour a style with colour codes selects: the one its last colour
\* code names
LastColor(style) ==
    LET at == {i \in 1..Len(style) : style[i] \in ColorCodes}
    IN  ColorName(style[CHOOSE i \in at : \A j \in at : j <= i])

FixedColors ==
    \A k \in 1..Len(plots) :
        LET item == plot_descr_array[plots[k].descr].series[plots[k].series]
        IN  IF HasColorCode(item)
            THEN plots[k].stroke = [by |-> "color", v |-> LastColor(StyleOf(item))]
            ELSE plots[k].stroke = [by |-> "color_scale", v |-> item.name]

\* C14 as stated: a primitive whose style has a colour code carries that
\* colour; every other primitive is coloured by its series name, the colours
\* of the palette going to the names in the order they are first seen over
\* all descriptors of the call.
C14_ColoursFirstSeen ==
    pc = "returned" =>
        /\ FixedColors
        /\ \A k \in 1..Len(plots) :
               plots[k].stroke.by = "color_scale" =>
                   PaletteColor(plots[k]) = PlaceIn(Uniq(NamesFrom(1, TRUE)),
                                                    plots[k].stroke.v)

\* C14 amended: a primitive whose style has a colour code carries that
\* colour; every other primitive is coloured by its series name, equal names
\* getting equal colours; the first colours of the palette go to the names
\* of all series of the first descriptor, with or without a colour code, in
\* input order, and the next ones to the names of the series without colour
\* code of the later descriptors, in input order.
C14_ColoursFirstDescriptorFirst ==
    pc = "returned" =>
        LET first == [k \in 1..Len(plot_descr_array[1].series) |->
                          plot_descr_array[1].series[k].name]
            order == Uniq(first \o NamesFrom(2, FALSE))
        IN  /\ FixedColors
            /\ \A k \in 1..Len(plots) :
                   plots[k].stroke.by = "color_scale" =>
                       /\ PaletteColor(plots[k]) = PlaceIn(order, plots[k].stroke.v)
                       /\ PaletteColor(plots[k]) > 0
            /\ \A k, l \in 1..Len(plots) :
                   (plots[k].stroke.by = "color_scale"
                        /\ plots[l].stroke.by = "color_scale"
                        /\ plots[k].name = plots[l].name) =>
                       PaletteColor(plots[k]) = PaletteColor(plots[l])

\* a chart whose second descriptor has a series with a colour code before
\* a series coloured by a name the first descriptor does not have
C14_Witness ==
    /\ pc = "returned"
    /\ idx = 2
    /\ Len(plot_descr_array[1].series) = 1
    /\ Len(plot_descr_array[2].series) = 2
    /\ HasColorCode(plot_descr_array[2].series[1])
    /\ NoColorCode(plot_descr_array[2].series[2])
    /\ plot_descr_array[2].series[2].name # plot_descr_array[1].series[1].name
    /\ \E k \in 1..Len(plots) :
          plots[k].descr = 2 /\ plots[k].series = 2 /\ PaletteColor(plots[k]) = 2

\* the kind of an error value: the constructor it was made with
Kind(e) == e.name
StylesThrown == {StyleOf(item) : item \in SeriesSet \cup DrawnSet}

\* C15 as stated: a unit mismatch and a style that cannot be interpreted
\* reach the caller as errors of different kinds.
C15_DistinctKinds ==
    pc = "thrown" =>
        /\ IsStyleError(error) => Kind(error) # Kind(UnitMismatchError)
        /\ error = UnitMismatchError =>
               \A style \in StylesThrown : Kind(error) # Kind(StyleError(style))

\* C15 amended: both errors reach the caller as TypeError values, which
\* differ in their message only; neither is caught or retried inside
\* render_plot: the call ends at the throw, the loop takes no further turn
\* and no chart is rendered.
C15_SameKindOtherMessage ==
    /\ [](pc = "thrown" =>
             /\ error # NoError
             /\ rendered # calls
             /\ idx < Len(plot_descr_array)
             /\ (IsStyleError(error) \/ error = UnitMismatchError) =>
                    Kind(error) = "TypeError"
             /\ IsStyleError(error) =>
                    /\ error # UnitMismatchError
                    /\ error.message # UnitMismatchError.message
             /\ error = UnitMismatchError =>
                    \A style \in StylesThrown : error.message # StyleError(style).message)
    /\ [][pc = "thrown" => (pc' = "idle" /\ UNCHANGED element_vars)]_vars

\* a call that threw the style error
C15_Witness ==
    /\ pc = "thrown"
    /\ IsStyleError(error)
    /\ error.detail = <<"-", "x">>
    /\ Kind(error) = Kind(UnitMismatchError)

\* what a step of a render_plot call writes outside the call
WritesOfCall ==
    /\ (pc = "idle" /\ pc' = "loop") =>
         /\ destroyed' = (IF chart_data # 0 THEN destroyed \cup {chart_data}
                          ELSE destroyed)
         /\ chart_data' = chart_data
         /\ rendered' \notin destroyed'
         /\ UNCHANGED <<superscript_dict, globals>>
    /\ (pc = "loop" /\ pc' = "loop") =>
         /\ globals' = globals \cup {"xunit", "yunit", "xlabel", "ylabel"}
         /\ UNCHANGED <<chart_data, destroyed, rendered>>
    /\ (pc = "loop" /\ pc' = "thrown") =>
         /\ {"xunit", "yunit"} \subseteq globals'
         /\ globals \subseteq globals'
         /\ UNCHANGED <<chart_data, destroyed, rendered>>
    /\ (pc = "loop" /\ pc' = "returned") =>
         /\ chart_data' = calls /\ rendered' = calls
         /\ globals \subseteq globals' /\ globals' \subseteq globals \cup {"s"}
         /\ UNCHANGED <<destroyed, superscript_dict>>
    /\ pc' = "idle" =>
         UNCHANGED <<superscript_dict, globals, chart_data, destroyed, rendered>>
    /\ superscript_dict # superscript_dict' =>
         /\ superscript_dict' = "ascii_to_superscript"
         /\ pc = "loop"
         /\ \/ split_unit(plot_descr_array[idx + 1].xunit).exponent # One
            \/ split_unit(plot_descr_array[idx + 1].yunit).exponent # One

\* C16 as stated: a call of render_plot (and of the unit helpers it runs)
\* leaves every variable outside it unchanged: the globals and the state
\* attached to the element.
C16_NoSideEffect ==
    [][UNCHANGED <<superscript_dict, globals, chart_data, destroyed, rendered>>]_vars

\* C16 amended: what a call of render_plot computes (display unit, labels,
\* primitives, symbols, error) is a function of its arguments, whatever calls
\* were made before; but the call writes state that outlives it: it destroys
\* the chart stored with the element, when there is one, stores and renders
\* its own chart when it returns, and assigns the globals xunit and yunit in
\* every turn of the loop, xlabel and ylabel when it builds the labels, s when
\* the legend is drawn and superscript_dict when unicode_unit formats an
\* exponent other than 1. A call that throws stores no chart and leaves the
\* destroyed chart with the element.
C16_ResultOfArguments ==
    /\ [](Finished =>
             LET st == render_plot(plot_descr_array, target_unit)
             IN  /\ unit = st.unit
                 /\ x_axis_label = st.x_axis_label
                 /\ y_axis_label = st.y_axis_label
                 /\ plots = st.plots
                 /\ symbols = st.symbols
                 /\ error = st.err
                 /\ (pc = "thrown") <=> (st.err # NoError))
    /\ [][WritesOfCall]_vars

\* a second call, for an element that has a chart, has returned after
\* assigning every global
C16_Witness ==
    /\ pc = "returned"
    /\ calls = 2
    /\ destroyed = {1}
    /\ chart_data = 2
    /\ globals = {"xunit", "yunit", "xlabel", "ylabel", "s"}
    /\ superscript_dict = "ascii_to_superscript"

\* =========================================================================
\* Properties of plot (checked under SpecPlot)
\* =========================================================================
\* the step in which done_func handles the responses data_array'
DoneFuncStep == in_flight' = in_flight - 1 /\ data_array' # <<>>
Pending(d) == {i \in 1..Len(d) : d[i].task_state \in {"pe", "st"}}
Erroneous(d) == {i \in 1..Len(d) : d[i].result = "error"}

\* what done_func does when it polls again, shows the error, renders
PollsAgain ==
    /\ timers' = Append(timers, [unit |-> done_func.unit, delay |-> PollDelay])
    /\ message' = message
    /\ calls' = calls /\ pc' = "idle" /\ plot_pc' = "idle"
ShowsError ==
    /\ message' = "error"
    /\ timers' = timers
    /\ calls' = calls /\ pc' = "idle" /\ plot_pc' = "idle"
RendersOnce ==
    /\ calls' = calls + 1
    /\ pc' = "loop" /\ plot_pc' = "rendering"
    /\ plot_descr_array' = [i \in 1..Len(data_array') |-> ResultOf(data_array'[i])]
    /\ target_unit' = done_func.unit
    /\ timers' = timers
    /\ message' = message

\* C17 as stated: whatever the positions of the responses in the array,
\* plot shows the error and polls no more when any response reports an
\* error, polls again after the fixed delay when some response is pending,
\* and calls render_plot once with all results otherwise.
C17_AnyPosition ==
    [][DoneFuncStep =>
          LET d == data_array'
          IN  IF Erroneous(d) # {} THEN ShowsError
              ELSE IF Pending(d) # {} THEN PollsAgain
              ELSE RendersOnce]_vars

\* C17 amended: the first response in array order that is pending or reports
\* an error decides: when it is pending, plot polls again after the fixed
\* delay and does not render, even if a later response reports an error;
\* when it reports an error, the error is shown and no further request is
\* scheduled, even if a later response is pending; without such a response
\* render_plot is called once with all results. A timeout that fires sends
\* the whole request set once more.
C17_FirstInArrayDecides ==
    /\ [][DoneFuncStep =>
             LET d == data_array'
                 decisive == Pending(d) \cup Erroneous(d)
             IN  IF decisive = {} THEN RendersOnce
                 ELSE IF Min(decisive) \in Pending(d) THEN PollsAgain
                 ELSE ShowsError]_vars
    /\ [][(timers # <<>> /\ timers' = Tail(timers)) =>
             /\ in_flight' = in_flight + 1
             /\ done_func'.unit = Head(timers).unit
             /\ Head(timers).delay = PollDelay]_vars
    /\ [][in_flight' > in_flight =>
             (in_flight' = in_flight + 1 /\ plot_calls' = plot_calls + 1
                 /\ spinner' = "shown")]_vars

\* plot polls again on a pending response followed by one with an error
C17_Witness ==
    /\ Len(data_array) = 2
    /\ data_array[1].task_state = "pe"
    /\ data_array[2].result = "error"
    /\ timers # <<>>
    /\ message = "none"

\* =========================================================================
\* Properties of submit_analyses_card_ajax (checked under SpecCard)
\* =========================================================================
\* a success callback has run in this step, an error callback has
SuccessStep == card_last'.kind = "success" /\ card_requests' # card_requests
                   /\ Cardinality(card_requests') < Cardinality(card_requests)
ErrorStep == card_last'.kind \in ErrorsThrown
                 /\ Cardinality(card_requests') < Cardinality(card_requests)
\* the chain has started and has no request in flight and no call scheduled
ChainStopped == card_calls > 0 /\ card_requests = {} /\ card_timers = <<>>

\* C18: the delay before a retry is 1000 ms whatever call_count is, every
\* 202 response schedules a retry whatever call_count is (there is no
\* maximum number of retries), and the chain issues no further request only
\* after a success response whose status is not 202 or after an error.
C18_NoBackoffNoMaximum ==
    /\ [](\A i \in 1..Len(card_timers) : card_timers[i].delay = 1000)
    /\ [](ChainStopped =>
             \/ card_last.kind = "success" /\ card_last.status # 202
             \/ card_last.kind \in ErrorsThrown)
    /\ [][(SuccessStep /\ card_last'.status = 202) =>
             /\ Len(card_timers') = Len(card_timers) + 1
             /\ card_timers'[Len(card_timers')].call_count = card_last'.call_count + 1]_vars
    /\ [][card_calls' > card_calls =>
             (card_calls = 0 \/ (card_timers # <<>> /\ card_timers' = Tail(card_timers)))]_vars

\* a chain of as many calls as the model allows, each retry after 1000 ms
C18_Witness ==
    /\ card_calls = MaxCardCalls
    /\ card_last.status = 202
    /\ card_last.call_count = MaxCardCalls - 2
    /\ card_requests # {}

\* C19: a success response replaces the card's content exactly when
\* call_count is 0 or the status is 200: on the first call and on the last
\* call only, never on an intermediate 202 response, and exactly once when
\* the chain has a single call.
C19_WrittenFirstAndLast ==
    /\ [][SuccessStep =>
             IF card_last'.call_count = 0 \/ card_last'.status = 200
             THEN /\ card_writes' = card_writes + 1
                  /\ card_html' = [kind |-> "data", call_count |-> card_last'.call_count]
             ELSE UNCHANGED <<card_html, card_writes>>]_vars
    /\ [][card_writes' # card_writes =>
             /\ SuccessStep
             /\ \/ card_last'.call_count = 0
                \/ card_requests' = {} /\ card_timers' = <<>>]_vars
    /\ [][(SuccessStep /\ card_last'.status = 202 /\ card_last'.call_count > 0) =>
             UNCHANGED <<card_html, card_writes>>]_vars
    /\ [](card_writes <= 2)
    /\ []((ChainStopped /\ card_calls = 1 /\ card_last.kind = "success") =>
             card_writes = 1)

\* a chain of three calls or more has written the card on its first and on
\* its last call
C19_Witness ==
    /\ ChainStopped
    /\ card_calls >= 3
    /\ card_last.status = 200
    /\ card_writes = 2
    /\ card_html = [kind |-> "data", call_count |-> card_calls - 1]

\* C20: call_count is 0 for the first call, also when the argument is
\* omitted, and one more with each further call; every 202 response
\* schedules exactly one follow-up call with call_count + 1 and the same
\* other arguments, so at most one request of the chain is in flight or
\* scheduled.
C20_CountsCalls ==
    /\ [](\A r \in card_requests :
             r.call_count = card_calls - 1 /\ r.args = CardArgs)
    /\ [](\A i \in 1..Len(card_timers) :
             card_timers[i].call_count = card_calls /\ card_timers[i].args = CardArgs)
    /\ [](Cardinality(card_requests) + Len(card_timers) <= 1)
    /\ [][(SuccessStep /\ card_last'.status = 202) =>
             /\ Len(card_timers') = Len(card_timers) + 1
             /\ card_timers'[Len(card_timers')].call_count = card_last'.call_count + 1
             /\ card_timers'[Len(card_timers')].args = CardArgs]_vars
    /\ [][(SuccessStep /\ card_last'.status # 202) => card_timers' = card_timers]_vars
    /\ [][card_calls' # card_calls =>
             /\ card_calls' = card_calls + 1
             /\ card_requests' = card_requests \cup
                    {[call_count |-> card_calls, args |-> CardArgs]}]_vars

\* the third call of a chain whose first call omitted call_count
C20_Witness ==
    /\ card_first = Omitted
    /\ card_calls = 3
    /\ card_requests = {[call_count |-> 2, args |-> CardArgs]}

\* the callback of a d3.json request of update_scatter_plot has run
ScatterStep == scatter_requests' = scatter_requests - 1
ScatterStopped ==
    scatter_calls > 0 /\ scatter_requests = 0 /\ scatter_timers = <<>>

\* C21: a failed request ends a polling chain without retry. In
\* submit_analyses_card_ajax an error other than 'abort' replaces the card
\* content with the error message and schedules no further call, an error
\* 'abort' leaves the card content unchanged and schedules no further call;
\* in update_scatter_plot an error is logged and no further poll is
\* scheduled.
C21_FailureEndsChain ==
    /\ [][(ErrorStep /\ card_requests' # card_requests) =>
             /\ card_timers' = card_timers
             /\ card_calls' = card_calls
             /\ IF card_last'.kind = "abort"
                THEN card_html' = card_html
                ELSE card_html' = [kind |-> "message",
                                   call_count |-> card_last'.call_count]]_vars
    /\ [](card_last.kind \in ErrorsThrown => ChainStopped)
    /\ [][(ScatterStep /\ scatter_last' = "error") =>
             /\ scatter_warned' = scatter_warned + 1
             /\ scatter_timers' = scatter_timers
             /\ scatter_calls' = scatter_calls
             /\ scatter_graphs' = scatter_graphs]_vars
    /\ [](scatter_last = "error" => ScatterStopped)

\* both chains have polled and then failed, the card's with an error other
\* than 'abort'
C21_Witness ==
    /\ card_last.kind = "Internal Server Error"
    /\ card_last.call_count >= 1
    /\ card_html = [kind |-> "message", call_count |-> card_last.call_count]
    /\ ChainStopped
    /\ scatter_last = "error"
    /\ scatter_calls >= 2
    /\ scatter_warned = 1
    /\ ScatterStopped

\* C24: reload() reloads the tree with the currently set state of the
\* select tab except the page number: after reload current_page is 1 and
\* the requested source URL carries the current search_term, category,
\* sharing_status, page_size and tree_mode with page = 1;
\* clear_search_term() does the same with search_term set to the empty
\* string.
C24_ReloadFirstPage ==
    /\ [](vm_last \in {"reload", "clear_search_term"} =>
             /\ current_page = 1
             /\ is_loading
             /\ source = [url |-> base_urls[tree_mode], search |-> search_term,
                          category |-> category, sharing_status |-> sharing_status,
                          page_size |-> page_size, page |-> 1,
                          tree_mode |-> tree_mode])
    /\ [](vm_last = "clear_search_term" => search_term = "")
    /\ [][vm_last' \in {"reload", "clear_search_term"} =>
             UNCHANGED <<category, sharing_status, page_size, tree_mode>>]_vars
    /\ [][vm_last' = "reload" => search_term' = search_term]_vars

\* a reload of the tag tree with a search term, a category, a sharing
\* status and a page size other than the initial ones, after a response
\* with two pages
C24_Witness ==
    /\ vm_last = "reload"
    /\ page_range = 2
    /\ source = [url |-> "/search/tags", search |-> "a", category |-> "exp",
                 sharing_status |-> "own", page_size |-> 25, page |-> 1,
                 tree_mode |-> "tag tree"]

\* the requests sent since the handlers were installed and not yet complete
Unfinished == (xhr_sent \ xhr_sent_early) \ xhr_complete

\* C22: once the handlers are installed, after any sequence of ajaxSend and
\* ajaxComplete events xhrPool holds exactly the requests that were sent
\* and have not yet completed, each once, so that leaving the page aborts
\* every unfinished request and no finished one.
C22_PoolIsUnfinished ==
    /\ [](installed =>
             /\ Elements(xhrPool) = Unfinished
             /\ Len(xhrPool) = Cardinality(Unfinished))
    /\ [][xhr_aborted' # xhr_aborted =>
             /\ xhr_aborted' = xhr_aborted \cup Unfinished
             /\ xhrPool' = <<>>]_vars
    /\ [][xhr_aborted' \ xhr_aborted \subseteq xhr_sent \ xhr_complete]_vars

\* requests have completed out of the order they were sent in, and leaving
\* the page has aborted another one
C22_Witness ==
    /\ installed
    /\ xhr_sent_early = {}
    /\ Cardinality(xhr_complete \ xhr_aborted) >= 2
    /\ Cardinality(xhr_aborted) = 1
    /\ Len(xhrPool) = 1

\* window.onbeforeunload has run and has done something to be seen
UnloadStep ==
    /\ unload_result' # NotCalled
    /\ unload_result' # unload_result \/ xhr_aborted' # xhr_aborted

\* C23 as stated: the installed beforeunload handler aborts the pooled
\* requests if and only if the result of the previous handler is undefined.
C23_AbortsIffUndefined ==
    [][xhr_aborted' # xhr_aborted => unload_result'.t = "undefined"]_vars

\* C23: the installed beforeunload handler first calls the handler
\* installed before it (if any) and returns its result unchanged; it aborts
\* the pooled requests if and only if that result is undefined or null
\* (r == undefined), and aborts none for any other result.
C23_AbortsIffNoResult ==
    /\ [](unload_result # NotCalled =>
             unload_result = IF oldbeforeunload.defined THEN oldbeforeunload.result
                             ELSE Undefined)
    /\ [][xhr_aborted' # xhr_aborted =>
             unload_result'.t \in {"undefined", "null"}]_vars
    /\ [][(UnloadStep /\ unload_result'.t \in {"undefined", "null"}) =>
             /\ xhr_aborted' = xhr_aborted \cup Elements(xhrPool)
             /\ xhrPool' = <<>>]_vars
    /\ []((oldbeforeunload.defined /\ oldbeforeunload.result.t = "string") =>
             xhr_aborted = {})

\* the handler installed before returned null, and the pooled requests were
\* aborted
C23_Witness ==
    /\ oldbeforeunload = Handler(Null)
    /\ unload_result = Null
    /\ Cardinality(xhr_aborted) >= 2
    /\ xhrPool = <<>>

\* no request set of plot() is unsettled, no timeout is set and done_func
\* is not running
PlotStopped ==
    /\ plot_calls > 0
    /\ in_flight = 0
    /\ timers = <<>>
    /\ plot_pc = "idle"
    /\ pc = "idle"

\* C25: every terminal outcome of a plot() polling chain hides the spinner
\* that plot() showed: once the chain has stopped (chart rendered, server
\* reported an error, or a request failed) the spinner is hidden, and it is
\* shown while the chain is still polling.
C25_SpinnerHiddenAtEnd ==
    /\ PlotStopped => spinner = "hidden"
    /\ (in_flight > 0 \/ timers # <<>>) => spinner = "shown"

\* the server reported an error at the first poll of the only chain
C25_ErrorKeepsSpinner ==
    /\ PlotStopped
    /\ plot_calls = 1
    /\ message = "error"
    /\ spinner = "shown"

\* the unit requested last: the global unit the click handler assigns, or
\* none before the first click
RequestedUnit ==
    IF "unit" \in globals THEN CHOOSE u \in ClickUnits : TRUE ELSE Undefined

\* C26: when a unit change is requested while an earlier plot() polling
\* chain of the element is still pending, the chart finally displayed is
\* the one rendered in the unit requested last.
C26_LatestUnitWins ==
    (PlotStopped /\ rendered # 0 /\ rendered = calls) => chart_unit = RequestedUnit

\* the chart displayed in the end was rendered without the unit requested
C26_OldUnitDisplayed ==
    /\ PlotStopped
    /\ rendered # 0
    /\ rendered = calls
    /\ RequestedUnit # Undefined
    /\ chart_unit = Undefined

\* C27: a render_plot call that fails leaves the chart state of the element
\* as it was before the call: a chart rendered by an earlier call is still
\* displayed and still the one stored under 'chart', never a destroyed one.
C27_FailedRenderKeepsChart ==
    pc = "thrown" =>
        /\ chart_data \notin destroyed
        /\ rendered = chart_data

\* the second call has thrown and the chart of the first is stored, destroyed
\* and no longer displayed
C27_DestroyedChartStored ==
    /\ pc = "thrown"
    /\ calls = 2
    /\ chart_data = 1
    /\ chart_data \in destroyed
    /\ rendered = 0

\* C28: once no request for a node's key is outstanding, the checkbox of
\* every node with that key shows the selection state the server
\* acknowledged last.
C28_CheckboxIsAcknowledged ==
    select_requests = {} =>
        \A n \in Nodes : HasUrls(n) => node_selected[n] = acknowledged

\* a select request has failed: the clicked node is checked, the other node
\* with its key is not, and the server has acknowledged no selection
C28_FailedSelectStaysChecked ==
    /\ select_requests = {}
    /\ select_sent = 1
    /\ select_last = "error"
    /\ node_selected[1]
    /\ ~node_selected[2]
    /\ ~acknowledged

=============================================================================
